---- MODULE Spec2Model ----
(***************************************************************************)
(* A model of the IniFile library (include/inifile/inifile.h): the         *)
(* comment, field, basic_section and basic_inifile classes with the        *)
(* line-oriented parser (read) and the serializer (write).                 *)
(*                                                                         *)
(* A std::string is a sequence of characters; a character is a one-letter  *)
(* string ("\\v" stands for the vertical tab, which TLA+ cannot spell).    *)
(* An unordered_map is a function whose DOMAIN is the set of stored keys;  *)
(* its iteration order is not specified by the language, so every place    *)
(* that iterates takes the order as a nondeterministic choice.             *)
(***************************************************************************)
EXTENDS Naturals, Sequences, FiniteSets, TLC

VARIABLES
  data_,    \* basic_inifile::data_ : section name -> basic_section
  stream,   \* the characters of the text stream read() and write() work on
  op,       \* the last operation called, with its arguments
  ret,      \* what the last operation returned
  err,      \* the exception the last operation threw ("none" when it returned)
  ci        \* TRUE for case_insensitive_inifile, FALSE for inifile

vars == <<data_, stream, op, ret, err, ci>>

----------------------------------------------------------------------------
(* Bounds of the model.                                                    *)

\* the longest input text, in lines, that a specification starts from
MaxLines == 4
\* the largest number of sections plus fields plus comment lines that the
\* mutation API is allowed to build
MaxSize == 3

----------------------------------------------------------------------------
(* detail:: string helpers                                                 *)

VT == "\\v"

whitespaces == {" ", "\t", "\n", "\r", "\f", VT}

\* std::string::find_last_not_of(whitespaces); 0 stands for npos
find_last_not_of(str) ==
  LET S == {i \in 1..Len(str) : str[i] \notin whitespaces}
  IN  IF S = {} THEN 0 ELSE CHOOSE i \in S : \A j \in S : j <= i

\* std::string::find_first_not_of(whitespaces); 0 stands for npos
find_first_not_of(str) ==
  LET S == {i \in 1..Len(str) : str[i] \notin whitespaces}
  IN  IF S = {} THEN 0 ELSE CHOOSE i \in S : \A j \in S : i <= j

\* a plausible slip: only the leading whitespace is removed
trim_LeadingOnly(str) ==
  IF find_last_not_of(str) = 0 THEN <<>>
  ELSE SubSeq(str, find_first_not_of(str), Len(str))

trim(str) ==
  LET lastpos == find_last_not_of(str)
  IN  IF lastpos = 0 THEN <<>>
      ELSE LET cut == SubSeq(str, 1, lastpos)
           IN  SubSeq(cut, find_first_not_of(cut), Len(cut))

is_all_whitespace(str) == find_first_not_of(str) = 0

\* std::string::find(c); 0 stands for npos
find(str, c) ==
  LET S == {i \in 1..Len(str) : str[i] = c}
  IN  IF S = {} THEN 0 ELSE CHOOSE i \in S : \A j \in S : i <= j

\* std::string::find(delimiter, start) with positions counted from 0;
\* Len(str) + 1 stands for npos. The empty delimiter is found at start
\* whenever start <= size()
find_str(str, delimiter, start) ==
  LET S == {p \in start..Len(str) :
              /\ p + Len(delimiter) <= Len(str)
              /\ SubSeq(str, p + 1, p + Len(delimiter)) = delimiter}
  IN  IF S = {} THEN Len(str) + 1 ELSE CHOOSE p \in S : \A q \in S : p <= q

\* std::string::substr(start, n), and substr(start) with n = size()
substr(str, start, n) ==
  SubSeq(str, start + 1, IF start + n > Len(str) THEN Len(str) ELSE start + n)

\* tokens.emplace_back(token) unless skip_empty drops the empty token
split_push(tokens, token, skip_empty) ==
  IF ~skip_empty \/ token # << >> THEN Append(tokens, token) ELSE tokens

\* the lines std::getline(is, line) yields until it fails: the text is cut at
\* every '\n', and a last piece that holds no character is not delivered
RECURSIVE getline(_)
getline(text) ==
  IF text = <<>> THEN <<>>
  ELSE LET pos == find(text, "\n")
       IN  IF pos = 0 THEN <<text>>
           ELSE <<SubSeq(text, 1, pos - 1)>> \o getline(SubSeq(text, pos + 1, Len(text)))

----------------------------------------------------------------------------
(* class comment: comments_ is a unique_ptr to a vector of lines; ptr is   *)
(* TRUE when the pointer is not null.                                      *)

NoComment == [ptr |-> FALSE, lines |-> <<>>]

comment_empty(c) == ~c.ptr \/ c.lines = <<>>

comment_clear(c) == NoComment

comment_view(c) == IF c.ptr THEN c.lines ELSE <<>>

ensure_comments_initialized(c) == IF c.ptr THEN c ELSE [ptr |-> TRUE, lines |-> <<>>]

\* a plausible slip: the marker is put in front of every line
format_comment_line_Always(comment, symbol) ==
  LET t == trim(comment)
      comment_prefix == IF symbol = "#" THEN "#" ELSE ";"
  IN  IF t = <<>> THEN <<comment_prefix>> ELSE <<comment_prefix, " ">> \o t

format_comment_line(comment, symbol) ==
  LET t == trim(comment)
      comment_prefix == IF symbol = "#" THEN "#" ELSE ";"
  IN  IF t = <<>> THEN <<comment_prefix>>
      ELSE IF t[1] # comment_prefix THEN <<comment_prefix, " ">> \o t
      ELSE t

RECURSIVE append_formatted(_, _, _)
append_formatted(lines, pieces, symbol) ==
  IF pieces = <<>> THEN lines
  ELSE append_formatted(
         IF is_all_whitespace(Head(pieces)) THEN lines
         ELSE Append(lines, format_comment_line(Head(pieces), symbol)),
         Tail(pieces), symbol)

add_comments_from_string(c, str, symbol) ==
  [c EXCEPT !.lines = append_formatted(@, getline(str), symbol)]

\* a plausible slip: the container is made before the text is looked at
comment_add_Eager(c, str, symbol) ==
  add_comments_from_string(ensure_comments_initialized(c), str, symbol)

\* comment::add(const std::string &, char)
comment_add(c, str, symbol) ==
  IF is_all_whitespace(str) THEN c
  ELSE add_comments_from_string(ensure_comments_initialized(c), str, symbol)

\* a plausible slip: the lines held are not dropped
comment_set_Append(c, str, symbol) ==
  IF ~is_all_whitespace(str)
  THEN add_comments_from_string(ensure_comments_initialized(c), str, symbol)
  ELSE NoComment

\* comment::set(const std::string &, char)
comment_set(c, str, symbol) ==
  IF ~is_all_whitespace(str)
  THEN add_comments_from_string([ptr |-> TRUE, lines |-> <<>>], str, symbol)
  ELSE NoComment

\* a plausible slip: the moved-from comment keeps its lines
comment_set_move_NoReset(c, other) == [this |-> other, other |-> other]

\* comment::set(comment &&other): *this takes other's lines, other is left reset
comment_set_move(c, other) == [this |-> other, other |-> NoComment]

\* a plausible slip: two comments without a container do not compare equal
comment_eq_NullUnequal(a, b) == a.ptr /\ b.ptr /\ a.lines = b.lines

\* comment::operator==
comment_eq(a, b) ==
  IF a.ptr /\ b.ptr THEN a.lines = b.lines ELSE ~a.ptr /\ ~b.ptr

\* comment::add(const comment &other), other a different object
comment_add_copy(c, other) ==
  IF comment_empty(other) THEN c
  ELSE [ensure_comments_initialized(c) EXCEPT !.lines = @ \o other.lines]

\* comment::add(comment &&other), other a different object: other is cleared
comment_add_move(c, other) ==
  IF comment_empty(other) THEN [this |-> c, other |-> other]
  ELSE [this |-> comment_add_copy(c, other), other |-> comment_clear(other)]

----------------------------------------------------------------------------
(* unordered_map<std::string, T, Hash, Equal>                              *)

tolower(c) ==
  CASE c = "A" -> "a" [] c = "B" -> "b" [] c = "K" -> "k" [] c = "F" -> "f"
    [] c = "L" -> "l" [] c = "S" -> "s" [] c = "E" -> "e" [] c = "T" -> "t"
    [] c = "R" -> "r" [] c = "U" -> "u" [] OTHER -> c

\* a plausible slip: the names are compared as they are
key_equal_Exact(lhs, rhs) == lhs = rhs

\* Equal: std::equal_to<std::string>, or detail::case_insensitive_equal
key_equal(lhs, rhs) ==
  IF ci
  THEN Len(lhs) = Len(rhs) /\ \A i \in 1..Len(lhs) : tolower(lhs[i]) = tolower(rhs[i])
  ELSE lhs = rhs

EmptyMap == << >>

map_find(m, k) == {x \in DOMAIN m : key_equal(x, k)}

map_contains(m, k) == map_find(m, k) # {}

map_key(m, k) == CHOOSE x \in map_find(m, k) : TRUE

\* unordered_map::at on a key that is present
map_at(m, k) == m[map_key(m, k)]

\* unordered_map::operator[]: a value-initialized entry is inserted when absent
map_index(m, k, dflt) == IF map_contains(m, k) THEN m ELSE (k :> dflt) @@ m

\* assignment through the reference operator[] returned
map_store(m, k, v) == [m EXCEPT ![map_key(m, k)] = v]

\* unordered_map::erase(key)
map_erase(m, k) == [x \in DOMAIN m \ map_find(m, k) |-> m[x]]

----------------------------------------------------------------------------
(* class field, class basic_section                                        *)

DefaultField == [value_ |-> <<>>, comments_ |-> NoComment]

DefaultSection == [data_ |-> EmptyMap, comments_ |-> NoComment]

\* a plausible slip: the assignment replaces the whole field, its comment too
field_assign_Whole(f, value) == [value_ |-> value, comments_ |-> NoComment]

\* field::operator=(const T &) with T = std::string: encode is the identity,
\* and only value_ is written
field_assign(f, value) == [f EXCEPT !.value_ = value]

\* what the move constructors leave in the object moved from: a reset
\* comment, a field with value_ and comments_ cleared, a section with data_
\* and comments_ cleared, a document with data_ cleared
moved_from(kind) ==
  CASE kind = "comment" -> NoComment
    [] kind = "field" -> DefaultField
    [] kind = "section" -> DefaultSection
    [] kind = "inifile" -> EmptyMap

\* T(T &&other): the new object takes the members of other
move_construct(kind, other) == [this |-> other, other |-> moved_from(kind)]

\* a.swap(b) on the objects named a and b
obj_swap(objs, a, b) ==
  [n \in DOMAIN objs |-> IF n = a THEN objs[b] ELSE IF n = b THEN objs[a] ELSE objs[n]]

\* a plausible slip: the members are taken and rhs is cleared, without temp
move_assign_NoTemp(kind, objs, this, rhs) ==
  [[objs EXCEPT ![this] = objs[rhs]] EXCEPT ![rhs] = moved_from(kind)]

\* T &operator=(T &&rhs): T temp(std::move(rhs)); swap(temp); the objects
\* are named, so that this and rhs may be the same object
move_assign(kind, objs, this, rhs) ==
  [[objs EXCEPT ![rhs] = move_construct(kind, objs[rhs]).other]
     EXCEPT ![this] = move_construct(kind, objs[rhs]).this]

\* T &operator=(const T &rhs): T temp(rhs); swap(temp);
copy_assign(objs, this, rhs) == [objs EXCEPT ![this] = objs[rhs]]

----------------------------------------------------------------------------
(* detail::convert<T>: text to typed value (decode) and back (encode).     *)
(* An integer is a sign and the decimal digits of its magnitude, so that   *)
(* the 64-bit limits of strtoll and strtoull are represented exactly.      *)

Digit == {"0", "1", "2", "3", "4", "5", "6", "7", "8", "9"}

DigitVal(c) ==
  CASE c = "0" -> 0 [] c = "1" -> 1 [] c = "2" -> 2 [] c = "3" -> 3 [] c = "4" -> 4
    [] c = "5" -> 5 [] c = "6" -> 6 [] c = "7" -> 7 [] c = "8" -> 8 [] c = "9" -> 9

\* the digits without leading zeros; zero is the empty sequence
RECURSIVE StripZeros(_)
StripZeros(ds) ==
  IF ds = <<>> THEN <<>>
  ELSE IF Head(ds) = "0" THEN StripZeros(Tail(ds)) ELSE ds

\* a < b for two magnitudes without leading zeros
RECURSIVE MagLess(_, _)
MagLess(a, b) ==
  IF Len(a) # Len(b) THEN Len(a) < Len(b)
  ELSE IF a = <<>> THEN FALSE
  ELSE IF Head(a) # Head(b) THEN DigitVal(Head(a)) < DigitVal(Head(b))
  ELSE MagLess(Tail(a), Tail(b))

\* an integer value: zero is [neg |-> FALSE, mag |-> <<>>]
IntVal(neg, mag) == [neg |-> neg /\ mag # <<>>, mag |-> mag]

\* std::numeric_limits<long long>::max(), -min(), <unsigned long long>::max()
LLONG_MAX == <<"9","2","2","3","3","7","2","0","3","6","8","5","4","7","7","5","8","0","7">>

LLONG_MIN_MAG == <<"9","2","2","3","3","7","2","0","3","6","8","5","4","7","7","5","8","0","8">>

ULLONG_MAX == <<"1","8","4","4","6","7","4","4","0","7","3","7","0","9","5","5","1","6","1","5">>

\* the integer types convert<T> takes with its integral specialization
\* (the three 8-bit types have the character specializations)
IntTypes == {"short", "unsigned short", "int", "unsigned int", "long long", "unsigned long long"}

is_signed(T) == T \in {"signed char", "short", "int", "long long"}

\* std::numeric_limits<T>::max()
numeric_max(T) ==
  CASE T = "signed char" -> <<"1","2","7">>
    [] T = "unsigned char" -> <<"2","5","5">>
    [] T = "short" -> <<"3","2","7","6","7">>
    [] T = "unsigned short" -> <<"6","5","5","3","5">>
    [] T = "int" -> <<"2","1","4","7","4","8","3","6","4","7">>
    [] T = "unsigned int" -> <<"4","2","9","4","9","6","7","2","9","5">>
    [] T = "long long" -> LLONG_MAX
    [] T = "unsigned long long" -> ULLONG_MAX

\* the magnitude of std::numeric_limits<T>::min()
numeric_min_mag(T) ==
  CASE T = "signed char" -> <<"1","2","8">>
    [] T = "short" -> <<"3","2","7","6","8">>
    [] T = "int" -> <<"2","1","4","7","4","8","3","6","4","8">>
    [] T = "long long" -> LLONG_MIN_MAG
    [] OTHER -> <<>>

\* the largest m for which the unsigned long long 2^64 - m exceeds
\* numeric_limits<T>::max(): 2^64 - max(T) - 1
wrap_limit(T) ==
  CASE T = "unsigned short" ->
         <<"1","8","4","4","6","7","4","4","0","7","3","7","0","9","4","8","6","0","8","0">>
    [] T = "unsigned int" ->
         <<"1","8","4","4","6","7","4","4","0","6","9","4","1","4","5","8","4","3","2","0">>
    [] OTHER -> <<>>

\* the first position from `from` on whose character is not in chars, or
\* Len(value) + 1
strto_skip(value, from, chars) ==
  LET rest == {i \in from..Len(value) : value[i] \notin chars}
  IN  IF rest = {} THEN Len(value) + 1 ELSE CHOOSE i \in rest : \A j \in rest : i <= j

\* whether a sign stands at i0
strto_sign(value, i0) == i0 <= Len(value) /\ value[i0] \in {"+", "-"}

\* the result for the digits i1 .. i2 - 1 after the sign, if any, at i0
strto_digits(value, i0, i1, i2) ==
  IF i2 = i1
  THEN [any |-> FALSE, neg |-> FALSE, mag |-> <<>>, end |-> 1]
  ELSE [any |-> TRUE, neg |-> i1 > i0 /\ value[i0] = "-",
        mag |-> StripZeros(SubSeq(value, i1, i2 - 1)), end |-> i2]

\* the longest run of digits from i1 on
strto_from(value, i0, i1) == strto_digits(value, i0, i1, strto_skip(value, i1, Digit))

\* one sign is taken at i0
strto_signed(value, i0) ==
  strto_from(value, i0, IF strto_sign(value, i0) THEN i0 + 1 ELSE i0)

\* strtoll / strtoull in base 10: leading isspace characters are skipped, one
\* sign is taken, then the longest run of digits; end is where end_ptr points
\* (1 is value.c_str(): nothing was converted)
strto(value) == strto_signed(value, strto_skip(value, 1, whitespaces))

Decoded(val) == [val |-> val, err |-> "none"]

DecodeThrows(what) == [val |-> "none", err |-> what]

\* the last test of decode: end_ptr == value.c_str() || *end_ptr != '\0'
decode_end_check(value, p, val) ==
  IF p.end = 1 \/ p.end <= Len(value) THEN DecodeThrows("invalid_argument")
  ELSE Decoded(val)

\* a plausible slip: only the overflow of strtoll is tested, not the range of T
decode_signed_NoRange(T, value) ==
  LET p      == strto(value)
      erange == IF p.neg THEN MagLess(LLONG_MIN_MAG, p.mag) ELSE MagLess(LLONG_MAX, p.mag)
  IN  IF erange THEN DecodeThrows("out_of_range")
      ELSE decode_end_check(value, p, IntVal(p.neg, p.mag))

\* the tests of the signed branch on the result p of strtoll
decode_signed_range(T, value, p) ==
  LET erange == IF p.neg THEN MagLess(LLONG_MIN_MAG, p.mag) ELSE MagLess(LLONG_MAX, p.mag)
      out    == IF p.neg /\ p.mag # <<>> THEN MagLess(numeric_min_mag(T), p.mag)
                ELSE MagLess(numeric_max(T), p.mag)
  IN  IF erange \/ out THEN DecodeThrows("out_of_range")
      ELSE decode_end_check(value, p, IntVal(p.neg, p.mag))

\* the signed branch of decode
decode_signed(T, value) == decode_signed_range(T, value, strto(value))

\* the tests of the unsigned branch on the result p of strtoull; strtoull
\* negates a text with a minus sign modulo 2^64, and the value is then the
\* record marked wrapped: static_cast<T>(2^64 - mag)
decode_unsigned_range(T, value, p) ==
  LET erange  == MagLess(ULLONG_MAX, p.mag)
      wrapped == p.neg /\ p.mag # <<>>
      out     == IF wrapped THEN ~MagLess(wrap_limit(T), p.mag)
                 ELSE MagLess(numeric_max(T), p.mag)
  IN  IF value[1] = "-" THEN DecodeThrows("out_of_range")
      ELSE IF erange \/ out THEN DecodeThrows("out_of_range")
      ELSE decode_end_check(value, p,
             IF wrapped THEN [neg |-> TRUE, mag |-> p.mag, wrapped |-> TRUE]
             ELSE IntVal(FALSE, p.mag))

\* the unsigned branch of decode
decode_unsigned(T, value) == decode_unsigned_range(T, value, strto(value))

\* convert<T>::decode for an integral T
decode_integral(T, value) ==
  IF value = <<>> THEN DecodeThrows("invalid_argument")
  ELSE IF is_signed(T) THEN decode_signed(T, value)
  ELSE decode_unsigned(T, value)

\* convert<T>::encode for an integral T: std::to_string
encode_integral(T, val) ==
  IF val.mag = <<>> THEN <<"0">>
  ELSE IF val.neg THEN <<"-">> \o val.mag ELSE val.mag

\* a plausible slip: the text is trimmed before it is compared
decode_bool_Trimmed(value) ==
  LET str == [i \in 1..Len(trim(value)) |-> tolower(trim(value)[i])]
  IN  Decoded(~(str = <<"f", "a", "l", "s", "e">> \/ str = <<"0">> \/ str = <<>>))

\* convert<bool>::decode: the text in lower case is compared with "false",
\* "0" and ""
decode_bool(value) ==
  LET str == [i \in 1..Len(value) |-> tolower(value[i])]
  IN  Decoded(~(str = <<"f", "a", "l", "s", "e">> \/ str = <<"0">> \/ str = <<>>))

\* convert<bool>::encode
encode_bool(val) == IF val THEN <<"t", "r", "u", "e">> ELSE <<"f", "a", "l", "s", "e">>

\* convert<char>::decode
decode_char(value) ==
  IF value = <<>> THEN DecodeThrows("invalid_argument") ELSE Decoded(value[1])

\* convert<char>::encode
encode_char(val) == <<val>>

\* convert<std::string>::decode
decode_string(value) == Decoded(value)

\* convert<std::string>::encode
encode_string(val) == val

\* the characters of the model with their codes as unsigned char ("\\x80"
\* stands for the character with the code 128, and so on)
CharCodes ==
  { <<"\\x00", 0>>, <<"\t", 9>>, <<" ", 32>>, <<"*", 42>>, <<"+", 43>>, <<"-", 45>>,
    <<"0", 48>>, <<"1", 49>>, <<"2", 50>>, <<"3", 51>>, <<"4", 52>>, <<"5", 53>>,
    <<"6", 54>>, <<"7", 55>>, <<"8", 56>>, <<"9", 57>>, <<"A", 65>>, <<"F", 70>>,
    <<"T", 84>>, <<"a", 97>>, <<"f", 102>>, <<"n", 110>>, <<"t", 116>>, <<"x", 120>>,
    <<"\\x7f", 127>>, <<"\\x80", 128>>, <<"\\x81", 129>>, <<"\\xfe", 254>>,
    <<"\\xff", 255>> }

char_code(c) == (CHOOSE p \in CharCodes : p[1] = c)[2]

code_char(u) == (CHOOSE p \in CharCodes : p[2] = u)[1]

\* the decimal digits of a natural number, none for zero
RECURSIVE NatDigits(_)
NatDigits(n) ==
  IF n = 0 THEN <<>>
  ELSE NatDigits(n \div 10) \o <<CHOOSE c \in Digit : DigitVal(c) = n % 10>>

\* the natural number a magnitude of at most three digits stands for
RECURSIVE MagNat(_)
MagNat(mag) ==
  IF mag = <<>> THEN 0 ELSE 10 * MagNat(SubSeq(mag, 1, Len(mag) - 1)) + DigitVal(mag[Len(mag)])

\* the 8-bit integer types: int8_t and uint8_t are signed char and unsigned
\* char, which have the character specializations
CharIntTypes == {"signed char", "unsigned char"}

\* convert<signed char>::decode, convert<unsigned char>::decode:
\* static_cast<T>(value[0])
decode_char_int(T, value) ==
  IF value = <<>> THEN DecodeThrows("invalid_argument")
  ELSE LET u == char_code(value[1])
       IN  IF T = "signed char" /\ u >= 128
           THEN Decoded(IntVal(TRUE, NatDigits(256 - u)))
           ELSE Decoded(IntVal(FALSE, NatDigits(u)))

\* convert<signed char>::encode, convert<unsigned char>::encode:
\* std::string(1, value)
encode_char_int(T, val) ==
  <<code_char(IF val.neg THEN 256 - MagNat(val.mag) ELSE MagNat(val.mag))>>

\* detail::convert<T>::decode(value, result)
decode(T, value) ==
  IF T \in IntTypes THEN decode_integral(T, value)
  ELSE IF T \in CharIntTypes THEN decode_char_int(T, value)
  ELSE IF T = "bool" THEN decode_bool(value)
  ELSE IF T = "char" THEN decode_char(value)
  ELSE decode_string(value)

\* detail::convert<T>::encode(value, result)
encode(T, val) ==
  IF T \in IntTypes THEN encode_integral(T, val)
  ELSE IF T \in CharIntTypes THEN encode_char_int(T, val)
  ELSE IF T = "bool" THEN encode_bool(val)
  ELSE IF T = "char" THEN encode_char(val)
  ELSE encode_string(val)

\* a plausible slip: the encoded text is appended to value_
field_set_Append(f, T, val) == [f EXCEPT !.value_ = @ \o encode(T, val)]

\* field::set<T>(value) and field::operator=(const T &): the encoded text
\* replaces value_
field_set(f, T, val) == [f EXCEPT !.value_ = encode(T, val)]

\* a plausible slip: the typed value is made a field first, and the field is
\* assigned whole
field_assign_value_Whole(f, arg) ==
  IF arg.is_field THEN arg.val
  ELSE [value_ |-> encode(arg.type, arg.val), comments_ |-> NoComment]

\* f = std::forward<T>(value): operator=(const field &) or operator=(field &&)
\* when the value is a field, the template operator=(const T &) otherwise
field_assign_value(f, arg) ==
  IF arg.is_field THEN arg.val ELSE field_set(f, arg.type, arg.val)

\* field::as<T>() const: the decoded value_, or the exception decode throws
field_as(f, T) == decode(T, f.value_)

----------------------------------------------------------------------------
(* basic_inifile::read                                                      *)

\* a plausible slip: the map is not cleared
map_clear_Keep(m) == m

\* data_.clear() of an unordered_map
map_clear(m) == EmptyMap

\* the state of read() between two iterations of its loop
ReadStart(data) ==
  [data_ |-> map_clear(data), current_section |-> <<>>, comments |-> NoComment]

\* comments.add(line, line[0]) on a line that starts with ';' or '#'
read_comment_line(st, line) ==
  [st EXCEPT !.comments = comment_add(@, line, line[1])]

\* the first branch: a line with '[' in front and ']' at the back
read_section_line(st, line) ==
  LET current_section == trim(SubSeq(line, 2, Len(line) - 1))
  IN  IF current_section # <<>>
      THEN LET d1 == map_index(st.data_, current_section, DefaultSection)
           IN  IF ~comment_empty(st.comments)
               THEN LET mv == comment_set_move(map_at(d1, current_section).comments_, st.comments)
                    IN  [data_ |-> map_store(d1, current_section,
                                     [map_at(d1, current_section) EXCEPT !.comments_ = mv.this]),
                         current_section |-> current_section,
                         comments |-> mv.other]
               ELSE [st EXCEPT !.data_ = d1, !.current_section = current_section]
      ELSE [st EXCEPT !.current_section = current_section]

\* a plausible slip: the line is cut at its last '='
split_pos_Last(line) ==
  LET S == {i \in 1..Len(line) : line[i] = "="}
  IN  IF S = {} THEN 0 ELSE CHOOSE i \in S : \A j \in S : j <= i

\* where the key=value branch cuts the line
split_pos(line) == find(line, "=")

\* data_[current_section][key] = value, then the pending comment is moved in
store_key_value(st, key, value) ==
  LET d1  == map_index(st.data_, st.current_section, DefaultSection)
      sec == map_at(d1, st.current_section)
      kv1 == map_index(sec.data_, key, DefaultField)
      f1  == field_assign(map_at(kv1, key), value)
  IN  IF ~comment_empty(st.comments)
      THEN LET mv == comment_set_move(f1.comments_, st.comments)
           IN  [data_ |-> map_store(d1, st.current_section,
                            [sec EXCEPT !.data_ = map_store(kv1, key,
                               [f1 EXCEPT !.comments_ = mv.this])]),
                current_section |-> st.current_section,
                comments |-> mv.other]
      ELSE [st EXCEPT !.data_ = map_store(d1, st.current_section,
                            [sec EXCEPT !.data_ = map_store(kv1, key, f1)])]

\* a plausible slip: a line without '=' is stored as a key with no value
read_key_value_line_KeyOnly(st, line) ==
  LET pos == split_pos(line)
  IN  IF pos # 0
      THEN store_key_value(st, trim(SubSeq(line, 1, pos - 1)),
                               trim(SubSeq(line, pos + 1, Len(line))))
      ELSE store_key_value(st, line, <<>>)

\* the else branch: key=value
read_key_value_line(st, line) ==
  LET pos == split_pos(line)
  IN  IF pos # 0
      THEN store_key_value(st, trim(SubSeq(line, 1, pos - 1)),
                               trim(SubSeq(line, pos + 1, Len(line))))
      ELSE st

\* one iteration of the while loop of read()
ReadLine(st, raw) ==
  LET line == trim(raw)
  IN  IF line = <<>> THEN st
      ELSE IF line[1] = ";" \/ line[1] = "#" THEN read_comment_line(st, line)
      ELSE IF line[1] = "[" /\ line[Len(line)] = "]" THEN read_section_line(st, line)
      ELSE read_key_value_line(st, line)

\* the states of read() after 0, 1, 2, ... iterations, for the lines given
RECURSIVE ReadStates(_, _)
ReadStates(st, lines) ==
  IF lines = <<>> THEN <<st>>
  ELSE <<st>> \o ReadStates(ReadLine(st, Head(lines)), Tail(lines))

\* read(std::istream &): the document it leaves in data_
read(data, text) ==
  LET sts == ReadStates(ReadStart(data), getline(text))
  IN  sts[Len(sts)].data_

----------------------------------------------------------------------------
(* basic_inifile::write                                                     *)

RECURSIVE Concat(_)
Concat(ss) == IF ss = <<>> THEN <<>> ELSE Head(ss) \o Concat(Tail(ss))

\* every order in which the entries of a map may be iterated
Orders(S) == {f \in [1..Cardinality(S) -> S] : \A i, j \in DOMAIN f : f[i] = f[j] => i = j}

KeyOrders(data) ==
  {ko \in [DOMAIN data -> UNION {Orders(DOMAIN data[s].data_) : s \in DOMAIN data}] :
     \A s \in DOMAIN data : ko[s] \in Orders(DOMAIN data[s].data_)}

\* a plausible slip: the comment lines are not written
write_comment_None(comments) == <<>>

\* write_comment(os, comments)
write_comment(comments) ==
  IF ~comment_empty(comments)
  THEN Concat([i \in 1..Len(comments.lines) |-> comments.lines[i] \o <<"\n">>])
  ELSE <<>>

\* the loop "for (const auto &kv : section)" of write(), in the order given
write_pairs(sec, order) ==
  Concat([i \in 1..Len(order) |->
            write_comment(sec.data_[order[i]].comments_)
              \o order[i] \o <<"=">> \o sec.data_[order[i]].value_ \o <<"\n">>])

\* the loop over the sections of write(), with its first_section flag
RECURSIVE write_sections(_, _, _, _)
write_sections(data, so, ko, first_section) ==
  IF so = <<>> THEN <<>>
  ELSE LET name == Head(so)
       IN  IF name = <<>> THEN write_sections(data, Tail(so), ko, first_section)
           ELSE (IF ~first_section THEN <<"\n">> ELSE <<>>)
                  \o write_comment(data[name].comments_)
                  \o <<"[">> \o name \o <<"]", "\n">>
                  \o write_pairs(data[name], ko[name])
                  \o write_sections(data, Tail(so), ko, FALSE)

\* a plausible slip: the pairs of the section with the empty name are written
\* after the named sections
write_GlobalLast(data, so, ko) ==
  IF map_contains(data, <<>>)
  THEN write_sections(data, so, ko, TRUE)
         \o write_pairs(map_at(data, <<>>), ko[map_key(data, <<>>)])
  ELSE write_sections(data, so, ko, TRUE)

\* write(std::ostream &): the text it sends to the stream when the maps are
\* iterated in the orders so (sections) and ko (keys of each section)
write(data, so, ko) ==
  IF map_contains(data, <<>>)
  THEN write_pairs(map_at(data, <<>>), ko[map_key(data, <<>>)])
         \o write_sections(data, so, ko, FALSE)
  ELSE write_sections(data, so, ko, TRUE)

----------------------------------------------------------------------------
(* The mutation API of basic_inifile, basic_section and field              *)

\* basic_inifile::operator[](sec)
inifile_index(data, sec) == map_index(data, trim(sec), DefaultSection)

\* basic_section::operator[](key)
section_index(sec, key) == [sec EXCEPT !.data_ = map_index(@, trim(key), DefaultField)]

\* data_[sec][key], both inserted when absent
inifile_index2(data, sec, key) ==
  LET d1 == inifile_index(data, sec)
  IN  map_store(d1, trim(sec), section_index(map_at(d1, trim(sec)), key))

\* basic_inifile::set(sec, key, value) with a text value
inifile_set(data, sec, key, value) ==
  LET d1 == inifile_index2(data, sec, key)
      s1 == map_at(d1, trim(sec))
  IN  map_store(d1, trim(sec),
        [s1 EXCEPT !.data_ = map_store(@, trim(key), field_assign(map_at(@, trim(key)), value))])

\* data_[sec][key] = value after both names were trimmed: ini[sec][key] = value,
\* ini[sec].set(key, value) and ini.set(sec, key, value)
inifile_assign(data, sec, key, arg) ==
  LET d1 == inifile_index2(data, sec, key)
      s1 == map_at(d1, trim(sec))
  IN  map_store(d1, trim(sec),
        [s1 EXCEPT !.data_ = map_store(@, trim(key), field_assign_value(map_at(@, trim(key)), arg))])

\* data_[sec].set_comment(str, symbol)
inifile_set_section_comment(data, sec, str, symbol) ==
  LET d1 == inifile_index(data, sec)
  IN  map_store(d1, trim(sec),
        [map_at(d1, trim(sec)) EXCEPT !.comments_ = comment_set(@, str, symbol)])

\* data_[sec].add_comment(str, symbol)
inifile_add_section_comment(data, sec, str, symbol) ==
  LET d1 == inifile_index(data, sec)
  IN  map_store(d1, trim(sec),
        [map_at(d1, trim(sec)) EXCEPT !.comments_ = comment_add(@, str, symbol)])

\* data_[sec].clear_comment()
inifile_clear_section_comment(data, sec) ==
  LET d1 == inifile_index(data, sec)
  IN  map_store(d1, trim(sec),
        [map_at(d1, trim(sec)) EXCEPT !.comments_ = comment_clear(@)])

\* data_[sec][key].add_comment(str, symbol)
inifile_add_field_comment(data, sec, key, str, symbol) ==
  LET d1 == inifile_index2(data, sec, key)
      s1 == map_at(d1, trim(sec))
      f1 == map_at(s1.data_, trim(key))
  IN  map_store(d1, trim(sec),
        [s1 EXCEPT !.data_ = map_store(@, trim(key),
                                [f1 EXCEPT !.comments_ = comment_add(@, str, symbol)])])

----------------------------------------------------------------------------
(* The accessors. Each yields what the call leaves in data_, what it        *)
(* returns and what it throws.                                             *)

Void == [kind |-> "void"]

Returns(data, kind, val) == [data |-> data, ret |-> [kind |-> kind, val |-> val], err |-> "none"]

Throws(data, what) == [data |-> data, ret |-> Void, err |-> what]

\* a plausible slip: the name is looked up as given
call_index_NoTrim(data, sec) ==
  LET d1 == map_index(data, sec, DefaultSection)
  IN  Returns(d1, "section", map_at(d1, sec))

\* ini[sec]
call_index(data, sec) ==
  LET d1 == inifile_index(data, sec)
  IN  Returns(d1, "section", map_at(d1, trim(sec)))

\* ini[sec][key]
call_index2(data, sec, key) ==
  LET d1 == inifile_index2(data, sec, key)
  IN  Returns(d1, "field", map_at(map_at(d1, trim(sec)).data_, trim(key)))

\* basic_section::contains(key) const
section_contains(sec, key) == map_contains(sec.data_, trim(key))

\* basic_section::get(key, default_value) const
section_get(sec, key, default_value) ==
  IF map_contains(sec.data_, trim(key)) THEN map_at(sec.data_, trim(key)) ELSE default_value

\* basic_inifile::contains(sec) const
call_contains(data, sec) == Returns(data, "bool", map_contains(data, trim(sec)))

\* basic_inifile::contains(sec, key) const
call_contains2(data, sec, key) ==
  Returns(data, "bool",
    IF map_contains(data, trim(sec)) THEN section_contains(map_at(data, trim(sec)), key)
    ELSE FALSE)

\* a plausible slip: the lookup is written with operator[], which inserts
call_get_Inserting(data, sec, key, default_value) ==
  LET d1 == inifile_index2(data, sec, key)
  IN  Returns(d1, "field",
        IF map_contains(data, trim(sec)) /\ section_contains(map_at(data, trim(sec)), key)
        THEN map_at(map_at(data, trim(sec)).data_, trim(key))
        ELSE default_value)

\* basic_inifile::get(sec, key, default_value) const
call_get(data, sec, key, default_value) ==
  Returns(data, "field",
    IF map_contains(data, trim(sec))
    THEN IF section_contains(map_at(data, trim(sec)), key)
         THEN map_at(map_at(data, trim(sec)).data_, trim(key))
         ELSE default_value
    ELSE default_value)

\* ini.at(sec).contains(key): the section's own contains, on a section held
call_section_contains(data, name, key) ==
  Returns(data, "bool", section_contains(data[name], key))

\* ini.at(sec).get(key, default_value)
call_section_get(data, name, key, default_value) ==
  Returns(data, "field", section_get(data[name], key, default_value))

\* a plausible slip: at() written with operator[], which inserts and never throws
call_at_Inserting(data, sec) ==
  LET d1 == inifile_index(data, sec)
  IN  Returns(d1, "section", map_at(d1, trim(sec)))

\* basic_inifile::at(sec): unordered_map::at throws std::out_of_range
call_at(data, sec) ==
  IF map_contains(data, trim(sec))
  THEN Returns(data, "section", map_at(data, trim(sec)))
  ELSE Throws(data, "out_of_range")

\* ini.at(sec).at(key): basic_section::at(key) on a section held
call_section_at(data, name, key) ==
  IF map_contains(data[name].data_, trim(key))
  THEN Returns(data, "field", map_at(data[name].data_, trim(key)))
  ELSE Throws(data, "out_of_range")

\* a plausible slip: the keys of the list are stored as given
RECURSIVE section_set_list_NoTrim(_, _)
section_set_list_NoTrim(sec, args) ==
  IF args = <<>> THEN sec
  ELSE LET key == Head(args)[1]
           m1  == map_index(sec.data_, key, DefaultField)
       IN  section_set_list_NoTrim([sec EXCEPT !.data_ = map_store(m1, key, Head(args)[2])],
                                   Tail(args))

\* basic_section::set(std::initializer_list<std::pair<std::string, field>>):
\* each pair in turn, the key trimmed, the whole field assigned
RECURSIVE section_set_list(_, _)
section_set_list(sec, args) ==
  IF args = <<>> THEN sec
  ELSE LET key == trim(Head(args)[1])
           m1  == map_index(sec.data_, key, DefaultField)
       IN  section_set_list([sec EXCEPT !.data_ = map_store(m1, key, Head(args)[2])],
                            Tail(args))

\* ini[sec].set({...})
call_set_list(data, sec, args) ==
  LET d1 == inifile_index(data, sec)
  IN  [data |-> map_store(d1, trim(sec), section_set_list(map_at(d1, trim(sec)), args)),
       ret |-> Void, err |-> "none"]

\* a plausible slip: the name is erased as given
call_remove_NoTrim(data, sec) ==
  Returns(map_erase(data, sec), "bool", map_contains(data, sec))

\* basic_inifile::remove(sec): data_.erase(sec) != 0
call_remove(data, sec) ==
  Returns(map_erase(data, trim(sec)), "bool", map_contains(data, trim(sec)))

\* ini.at(name).remove(key): basic_section::remove on a section held
call_section_remove(data, name, key) ==
  Returns([data EXCEPT ![name].data_ = map_erase(@, trim(key))], "bool",
          map_contains(data[name].data_, trim(key)))

\* basic_inifile::erase(key_type key): the number of entries erased
call_erase(data, sec) ==
  Returns(map_erase(data, trim(sec)), "size", Cardinality(map_find(data, trim(sec))))

\* basic_inifile::clear()
call_clear(data) == [data |-> map_clear(data), ret |-> Void, err |-> "none"]

\* ini.at(name).clear(): basic_section::clear empties data_ and keeps comments_
call_section_clear(data, name) ==
  [data |-> [data EXCEPT ![name].data_ = map_clear(@)], ret |-> Void, err |-> "none"]

\* basic_inifile::find(key): the entry the iterator points at, or end()
call_find(data, sec) ==
  IF map_contains(data, trim(sec))
  THEN Returns(data, "iterator", <<map_key(data, trim(sec)), map_at(data, trim(sec))>>)
  ELSE Returns(data, "iterator", "end")

\* basic_inifile::count(key)
call_count(data, sec) == Returns(data, "size", Cardinality(map_find(data, trim(sec))))

\* ini.at(name).find(key): basic_section::find
call_section_find(data, name, key) ==
  IF map_contains(data[name].data_, trim(key))
  THEN Returns(data, "iterator",
               <<map_key(data[name].data_, trim(key)), map_at(data[name].data_, trim(key))>>)
  ELSE Returns(data, "iterator", "end")

\* ini.at(name).count(key): basic_section::count
call_section_count(data, name, key) ==
  Returns(data, "size", Cardinality(map_find(data[name].data_, trim(key))))

\* basic_inifile::from_string(str): read() on a string stream
call_from_string(data, str) == [data |-> read(data, str), ret |-> Void, err |-> "none"]

\* ini[sec][key] = value for a typed value
call_field_set(data, sec, key, T, val) ==
  LET d1 == inifile_index2(data, sec, key)
      s1 == map_at(d1, trim(sec))
      d2 == map_store(d1, trim(sec),
              [s1 EXCEPT !.data_ = map_store(@, trim(key), field_set(map_at(@, trim(key)), T, val))])
  IN  Returns(d2, "field", map_at(map_at(d2, trim(sec)).data_, trim(key)))

\* what as<T>() gives the caller: the value, or the exception
as_result(data, T, r) ==
  IF r.err = "none" THEN Returns(data, T, r.val) ELSE Throws(data, r.err)

\* ini.at(sec).at(key).as<T>() on a field held
call_field_as(data, sec, key, T) ==
  as_result(data, T, field_as(map_at(map_at(data, trim(sec)).data_, trim(key)), T))

----------------------------------------------------------------------------
(* Spec: a text stream, read into the document and written back            *)

\* the lines the input texts are made of (without their line breaks)
Lines ==
  { <<" ">>,
    <<";", "c">>,
    <<" ", "#", "d", " ">>,
    <<"[", "a", "]">>,
    <<"[", " ", "b", "]", "\r">>,
    <<"[", " ", "]">>,
    <<"k", "=">>,
    <<" ", "k", " ", "=", " ", "v", "=", "w", " ">>,
    <<"x">> }

\* the line sequences of at most n lines
RECURSIVE LineSeqs(_)
LineSeqs(n) ==
  IF n = 0 THEN {<<>>}
  ELSE LET shorter == LineSeqs(n - 1)
       IN  shorter \cup {Append(ls, l) : ls \in shorter, l \in Lines}

\* the lines joined into one text, a line break between two lines
RECURSIVE JoinLines(_)
JoinLines(ls) ==
  IF ls = <<>> THEN <<>>
  ELSE IF Len(ls) = 1 THEN ls[1]
  ELSE ls[1] \o <<"\n">> \o JoinLines(Tail(ls))

Inputs == {JoinLines(ls) : ls \in LineSeqs(MaxLines)}

\* a document the API built before the stream is read: ini["z"]["k"] = "v"
OldDoc == inifile_set(EmptyMap, <<"z">>, <<"k">>, <<"v">>)

Init ==
  /\ ci = FALSE
  /\ data_ \in {EmptyMap, OldDoc}
  /\ stream \in Inputs
  /\ op = [name |-> "init"]
  /\ ret = Void
  /\ err = "none"

\* ini.read(stream)
Read ==
  /\ data_' = read(data_, stream)
  /\ op' = [name |-> "read"]
  /\ ret' = Void
  /\ err' = "none"
  /\ UNCHANGED <<stream, ci>>

\* ini.write(stream) on an emptied stream
Write ==
  \E so \in Orders(DOMAIN data_) : \E ko \in KeyOrders(data_) :
    /\ stream' = write(data_, so, ko)
    /\ op' = [name |-> "write", so |-> so, ko |-> ko, parsed |-> (op.name = "read")]
    /\ ret' = Void
    /\ err' = "none"
    /\ UNCHANGED <<data_, ci>>

Next == Read \/ Write

Spec == Init /\ [][Next]_vars

----------------------------------------------------------------------------
(* The line grammar as the specification words it (section 6), used to     *)
(* state the claims about read().                                          *)

IsBlankLine(raw) == \A i \in 1..Len(raw) : raw[i] \in whitespaces

Stripped(raw) == trim(raw)

IsCommentLine(raw) == ~IsBlankLine(raw) /\ Stripped(raw)[1] \in {";", "#"}

IsBracketLine(raw) ==
  /\ ~IsBlankLine(raw) /\ ~IsCommentLine(raw)
  /\ Stripped(raw)[1] = "[" /\ Stripped(raw)[Len(Stripped(raw))] = "]"

HeaderName(raw) == trim(SubSeq(Stripped(raw), 2, Len(Stripped(raw)) - 1))

IsHeaderLine(raw) == IsBracketLine(raw) /\ HeaderName(raw) # <<>>

IsEmptyHeaderLine(raw) == IsBracketLine(raw) /\ HeaderName(raw) = <<>>

HasEquals(raw) == \E i \in 1..Len(raw) : raw[i] = "="

IsKeyValueLine(raw) ==
  ~IsBlankLine(raw) /\ ~IsCommentLine(raw) /\ ~IsBracketLine(raw) /\ HasEquals(raw)

IsOtherLine(raw) ==
  ~IsBlankLine(raw) /\ ~IsCommentLine(raw) /\ ~IsBracketLine(raw) /\ ~HasEquals(raw)

FirstEquals(raw) == CHOOSE i \in 1..Len(raw) : raw[i] = "=" /\ \A j \in 1..(i - 1) : raw[j] # "="

KeyOf(raw) == trim(SubSeq(Stripped(raw), 1, FirstEquals(Stripped(raw)) - 1))

ValueOf(raw) ==
  trim(SubSeq(Stripped(raw), FirstEquals(Stripped(raw)) + 1, Len(Stripped(raw))))

\* the lines of the stream, and read()'s state before and after each of them:
\* line i takes RdStates[i] to RdStates[i + 1]
InLines == getline(stream)

RdStates == ReadStates(ReadStart(EmptyMap), InLines)

HasField(data, sec, key) == sec \in DOMAIN data /\ key \in DOMAIN data[sec].data_

\* no key=value line after line i writes the same key of the same section
LastStore(lines, sts, i) ==
  \A j \in (i + 1)..Len(lines) :
    IsKeyValueLine(lines[j]) =>
      ~(sts[j].current_section = sts[i].current_section /\ KeyOf(lines[j]) = KeyOf(lines[i]))

----------------------------------------------------------------------------
(* C2: a key=value line is cut at its first '=', key and value are trimmed, *)
(* and the value is stored under document[current_section][key]; the      *)
(* current section is the empty string until a header has been seen.       *)
C2_KeyValueSplit ==
  op.name = "read" =>
    LET lines == InLines
        sts   == RdStates
    IN  \A i \in 1..Len(lines) :
          IsKeyValueLine(lines[i]) =>
            LET cur   == sts[i].current_section
                key   == KeyOf(lines[i])
                value == ValueOf(lines[i])
            IN  /\ HasField(sts[i + 1].data_, cur, key)
                /\ sts[i + 1].data_[cur].data_[key].value_ = value
                /\ (\A j \in 1..(i - 1) : ~IsBracketLine(lines[j])) => cur = <<>>
                /\ LastStore(lines, sts, i) =>
                     HasField(data_, cur, key) /\ data_[cur].data_[key].value_ = value

\* a read whose input held " k = v=w " before any header: the empty-name
\* section holds k with the value v=w
C2_Witness ==
  /\ op.name = "read"
  /\ \E i \in 1..Len(InLines) :
       /\ InLines[i] = <<" ", "k", " ", "=", " ", "v", "=", "w", " ">>
       /\ \A j \in 1..(i - 1) : ~IsBracketLine(InLines[j])
       /\ LastStore(InLines, RdStates, i)
  /\ HasField(data_, <<>>, <<"k">>)
  /\ data_[<<>>].data_[<<"k">>].value_ = <<"v", "=", "w">>

\* the comment lines among lines a+1 .. b-1, trimmed, in input order
CommentsBetween(lines, a, b) ==
  LET cs == SelectSeq(SubSeq(lines, a + 1, b - 1), IsCommentLine)
  IN  [n \in 1..Len(cs) |-> Stripped(cs[n])]

IsEntityLine(raw) == IsHeaderLine(raw) \/ IsKeyValueLine(raw)

\* the last line before line i that introduced a section or a key, 0 if none
PrevEntity(lines, i) ==
  LET S == {j \in 1..(i - 1) : IsEntityLine(lines[j])}
  IN  IF S = {} THEN 0 ELSE CHOOSE j \in S : \A n \in S : n <= j

\* the section or field that line i of the input introduces exists in data
EntityIn(data, lines, sts, i) ==
  IF IsHeaderLine(lines[i]) THEN HeaderName(lines[i]) \in DOMAIN data
  ELSE HasField(data, sts[i].current_section, KeyOf(lines[i]))

\* its comment lines
EntityComment(data, lines, sts, i) ==
  IF IsHeaderLine(lines[i]) THEN comment_view(data[HeaderName(lines[i])].comments_)
  ELSE comment_view(data[sts[i].current_section].data_[KeyOf(lines[i])].comments_)

\* how often the line t occurs in the sequence of lines ls
Count(ls, t) == Cardinality({n \in 1..Len(ls) : ls[n] = t})

RECURSIVE SumOver(_, _)
SumOver(S, f) ==
  IF S = {} THEN 0
  ELSE LET x == CHOOSE y \in S : TRUE IN f[x] + SumOver(S \ {x}, f)

\* how often the line t is stored in the comments of the document
Stored(data, t) ==
  SumOver(DOMAIN data,
    [s \in DOMAIN data |->
       Count(comment_view(data[s].comments_), t)
         + SumOver(DOMAIN data[s].data_,
             [k \in DOMAIN data[s].data_ |->
                Count(comment_view(data[s].data_[k].comments_), t)])])

----------------------------------------------------------------------------
(* C3: the comment read() attaches to the section or key a line introduces *)
(* is the sequence of the comment lines seen since the last such line, as  *)
(* trimmed and in input order, blank lines in between or not (with none    *)
(* seen nothing is attached: a new entity has no comment, one that existed *)
(* keeps its own); no pending line is left behind, and no comment line is  *)
(* stored more often than the input holds it.                              *)
C3_CommentAttachment ==
  op.name = "read" =>
    LET lines == InLines
        sts   == RdStates
    IN  /\ \A i \in 1..Len(lines) :
             IsEntityLine(lines[i]) =>
               LET pending == CommentsBetween(lines, PrevEntity(lines, i), i)
               IN  /\ EntityIn(sts[i + 1].data_, lines, sts, i)
                   /\ comment_view(sts[i].comments) = pending
                   /\ comment_empty(sts[i + 1].comments)
                   /\ pending # <<>> =>
                        EntityComment(sts[i + 1].data_, lines, sts, i) = pending
                   /\ pending = <<>> =>
                        EntityComment(sts[i + 1].data_, lines, sts, i) =
                          IF EntityIn(sts[i].data_, lines, sts, i)
                          THEN EntityComment(sts[i].data_, lines, sts, i)
                          ELSE <<>>
        /\ \A n \in 1..Len(lines) :
             IsCommentLine(lines[n]) =>
               Stored(data_, Stripped(lines[n]))
                 <= Count(CommentsBetween(lines, 0, Len(lines) + 1), Stripped(lines[n]))

\* a read of ";c", a blank line, " #d " and "[a]": section a carries both lines
C3_Witness ==
  /\ op.name = "read"
  /\ InLines = << <<";", "c">>, <<" ">>, <<" ", "#", "d", " ">>, <<"[", "a", "]">> >>
  /\ <<"a">> \in DOMAIN data_
  /\ comment_view(data_[<<"a">>].comments_) = << <<";", "c">>, <<"#", "d">> >>

----------------------------------------------------------------------------
(* C4: a header whose name is empty after trimming is ignored: it makes no *)
(* section and leaves the current section as it was.                       *)
C4_EmptyHeaderIgnored ==
  op.name = "read" =>
    LET lines == InLines
        sts   == RdStates
    IN  \A i \in 1..Len(lines) :
          IsEmptyHeaderLine(lines[i]) =>
            /\ sts[i + 1].data_ = sts[i].data_
            /\ sts[i + 1].current_section = sts[i].current_section
            /\ \A j \in (i + 1)..Len(lines) :
                 (IsKeyValueLine(lines[j]) /\ \A n \in (i + 1)..(j - 1) : ~IsBracketLine(lines[n]))
                   => HasField(sts[j + 1].data_, sts[i].current_section, KeyOf(lines[j]))

----------------------------------------------------------------------------
(* C5: read() throws nothing, and a line that is not blank, no comment, no *)
(* bracketed header and holds no '=' changes neither the document nor the  *)
(* current section nor the pending comments.                               *)
C5_OtherLineSkipped ==
  op.name = "read" =>
    LET lines == InLines
        sts   == RdStates
    IN  /\ err = "none"
        /\ data_ = sts[Len(lines) + 1].data_
        /\ \A i \in 1..Len(lines) : IsOtherLine(lines[i]) => sts[i + 1] = sts[i]

\* a read of "[a]", ";c", "x", "k=": the line x is passed over, and the
\* comment before it and the section before it reach the key after it
C5_Witness ==
  /\ op.name = "read"
  /\ InLines = << <<"[", "a", "]">>, <<";", "c">>, <<"x">>, <<"k", "=">> >>
  /\ err = "none"
  /\ DOMAIN data_ = {<<"a">>}
  /\ DOMAIN data_[<<"a">>].data_ = {<<"k">>}
  /\ comment_view(data_[<<"a">>].data_[<<"k">>].comments_) = << <<";", "c">> >>

----------------------------------------------------------------------------
(* C6: read() replaces the document: what it leaves is what reading the    *)
(* same text into a freshly constructed document leaves.                   *)
C6_ReadReplaces ==
  op.name = "read" => data_ = read(EmptyMap, stream)

\* the document held ini["z"]["k"] before a text with a key was read: z is
\* gone
C6_Witness ==
  /\ op.name = "read"
  /\ <<"z">> \notin DOMAIN data_
  /\ \E s \in DOMAIN data_ : DOMAIN data_[s].data_ # {}

----------------------------------------------------------------------------
(* SpecApi: a document built and queried through the API                   *)

SecArgs == { <<"a">>, <<" ", "a", "\t">>, <<"b">> }

KeyArgs == { <<"k">>, <<" ", "k">>, << >> }

ValArgs == { <<"v">>, <<"4", "2">> }

\* the default a caller hands to get()
GetDefault == [value_ |-> <<"d">>, comments_ |-> NoComment]

\* sections plus fields plus comment lines of a document
Size(data) ==
  SumOver(DOMAIN data,
    [s \in DOMAIN data |->
       1 + Len(comment_view(data[s].comments_))
         + SumOver(DOMAIN data[s].data_,
             [k \in DOMAIN data[s].data_ |->
                1 + Len(comment_view(data[s].data_[k].comments_))])])

InitApi ==
  /\ ci = FALSE
  /\ data_ = EmptyMap
  /\ stream = <<>>
  /\ op = [name |-> "init"]
  /\ ret = Void
  /\ err = "none"

\* the call leaves r; a call that would outgrow the model's bound is not made
Call(o, r) ==
  /\ Size(r.data) <= MaxSize
  /\ data_' = r.data
  /\ ret' = r.ret
  /\ err' = r.err
  /\ op' = o
  /\ UNCHANGED <<stream, ci>>

Index == \E sec \in SecArgs :
  Call([name |-> "index", sec |-> sec], call_index(data_, sec))

Index2 == \E sec \in SecArgs, key \in KeyArgs :
  Call([name |-> "index2", sec |-> sec, key |-> key], call_index2(data_, sec, key))

Set == \E sec \in SecArgs, key \in KeyArgs, value \in ValArgs :
  Call([name |-> "set", sec |-> sec, key |-> key, value |-> value],
       LET d1 == inifile_set(data_, sec, key, value)
       IN  Returns(d1, "field", map_at(map_at(d1, trim(sec)).data_, trim(key))))

SetSectionComment == \E sec \in SecArgs, symbol \in {";", "#"} :
  Call([name |-> "set_section_comment", sec |-> sec, symbol |-> symbol],
       [data |-> inifile_set_section_comment(data_, sec, <<"c">>, symbol),
        ret |-> Void, err |-> "none"])

AddFieldComment == \E sec \in SecArgs, key \in KeyArgs :
  Call([name |-> "add_field_comment", sec |-> sec, key |-> key],
       [data |-> inifile_add_field_comment(data_, sec, key, <<"c">>, ";"),
        ret |-> Void, err |-> "none"])

Contains == \E sec \in SecArgs :
  Call([name |-> "contains", sec |-> sec], call_contains(data_, sec))

Contains2 == \E sec \in SecArgs, key \in KeyArgs :
  Call([name |-> "contains2", sec |-> sec, key |-> key], call_contains2(data_, sec, key))

Get == \E sec \in SecArgs, key \in KeyArgs :
  Call([name |-> "get", sec |-> sec, key |-> key], call_get(data_, sec, key, GetDefault))

SectionContains == \E name \in DOMAIN data_, key \in KeyArgs :
  Call([name |-> "section_contains", sec |-> name, key |-> key],
       call_section_contains(data_, name, key))

SectionGet == \E name \in DOMAIN data_, key \in KeyArgs :
  Call([name |-> "section_get", sec |-> name, key |-> key],
       call_section_get(data_, name, key, GetDefault))

At == \E sec \in SecArgs :
  Call([name |-> "at", sec |-> sec], call_at(data_, sec))

SectionAt == \E name \in DOMAIN data_, key \in KeyArgs :
  Call([name |-> "section_at", sec |-> name, key |-> key], call_section_at(data_, name, key))

NextApi ==
  \/ Index \/ Index2 \/ Set \/ SetSectionComment \/ AddFieldComment
  \/ Contains \/ Contains2 \/ Get \/ SectionContains \/ SectionGet
  \/ At \/ SectionAt

SpecApi == InitApi /\ [][NextApi]_vars

----------------------------------------------------------------------------
(* C8: operator[] reads or inserts at both levels. Indexing an absent      *)
(* section inserts an empty one, indexing an absent key inserts a field    *)
(* with empty text and no comment, the size grows by one and contains      *)
(* becomes true; indexing what exists returns it and changes nothing.      *)
C8_IndexReadOrInsert ==
  [][ /\ op'.name = "index" =>
           LET s == trim(op'.sec)
           IN  IF s \in DOMAIN data_
               THEN data_' = data_ /\ ret'.val = data_[s]
               ELSE /\ DOMAIN data_' = DOMAIN data_ \cup {s}
                    /\ Cardinality(DOMAIN data_') = Cardinality(DOMAIN data_) + 1
                    /\ \A x \in DOMAIN data_ : data_'[x] = data_[x]
                    /\ DOMAIN data_'[s].data_ = {}
                    /\ comment_view(data_'[s].comments_) = <<>>
                    /\ ret'.val = data_'[s]
                    /\ call_contains(data_', op'.sec).ret.val
      /\ op'.name = "index2" =>
           LET s == trim(op'.sec)
               k == trim(op'.key)
           IN  IF HasField(data_, s, k)
               THEN data_' = data_ /\ ret'.val = data_[s].data_[k]
               ELSE /\ DOMAIN data_' = DOMAIN data_ \cup {s}
                    /\ \A x \in DOMAIN data_ \ {s} : data_'[x] = data_[x]
                    /\ DOMAIN data_'[s].data_ =
                         (IF s \in DOMAIN data_ THEN DOMAIN data_[s].data_ ELSE {}) \cup {k}
                    /\ Cardinality(DOMAIN data_'[s].data_) =
                         (IF s \in DOMAIN data_ THEN Cardinality(DOMAIN data_[s].data_) ELSE 0) + 1
                    /\ s \in DOMAIN data_ =>
                         /\ data_'[s].comments_ = data_[s].comments_
                         /\ \A x \in DOMAIN data_[s].data_ : data_'[s].data_[x] = data_[s].data_[x]
                    /\ data_'[s].data_[k].value_ = <<>>
                    /\ comment_view(data_'[s].data_[k].comments_) = <<>>
                    /\ ret'.val = data_'[s].data_[k]
                    /\ call_contains2(data_', op'.sec, op'.key).ret.val
    ]_vars

\* ini[" a\t"][" k"] on a section a that held another key: a now holds two
\* keys, and k has empty text and no comment
C8_Witness ==
  /\ op.name = "index2"
  /\ op.sec = <<" ", "a", "\t">> /\ op.key = <<" ", "k">>
  /\ HasField(data_, <<"a">>, <<"k">>)
  /\ Cardinality(DOMAIN data_[<<"a">>].data_) = 2
  /\ data_[<<"a">>].data_[<<"k">>] = DefaultField
  /\ ret.val = DefaultField

----------------------------------------------------------------------------
(* C9: contains(key), contains(section, key), get(key, default) and        *)
(* get(section, key, default) throw nothing and leave the document as it   *)
(* was; get returns a copy of the field when the trimmed section and key   *)
(* exist and the default otherwise.                                        *)
C9_LenientAccessors ==
  [][ op'.name \in {"contains", "contains2", "get", "section_contains", "section_get"} =>
        /\ data_' = data_
        /\ err' = "none"
        /\ op'.name = "contains" => ret'.val = (trim(op'.sec) \in DOMAIN data_)
        /\ op'.name = "contains2" =>
             ret'.val = HasField(data_, trim(op'.sec), trim(op'.key))
        /\ op'.name = "section_contains" =>
             ret'.val = HasField(data_, op'.sec, trim(op'.key))
        /\ op'.name = "get" =>
             ret'.val = IF HasField(data_, trim(op'.sec), trim(op'.key))
                        THEN data_[trim(op'.sec)].data_[trim(op'.key)]
                        ELSE GetDefault
        /\ op'.name = "section_get" =>
             ret'.val = IF HasField(data_, op'.sec, trim(op'.key))
                        THEN data_[op'.sec].data_[trim(op'.key)]
                        ELSE GetDefault
    ]_vars

\* get(" a\t", " k", default) on a document that holds section a without the
\* key k: the default comes back, and a still has no key k
C9_Witness ==
  /\ op.name = "get"
  /\ op.sec = <<" ", "a", "\t">> /\ op.key = <<" ", "k">>
  /\ <<"a">> \in DOMAIN data_
  /\ <<"k">> \notin DOMAIN data_[<<"a">>].data_
  /\ ret.val = GetDefault
  /\ err = "none"

----------------------------------------------------------------------------
(* C10: at(name) on a document or a section returns the entry when the     *)
(* trimmed name is present and throws std::out_of_range otherwise; when it *)
(* throws, nothing is inserted and the document is unchanged.              *)
C10_StrictAt ==
  [][ /\ op'.name = "at" =>
           /\ data_' = data_
           /\ IF trim(op'.sec) \in DOMAIN data_
              THEN err' = "none" /\ ret'.val = data_[trim(op'.sec)]
              ELSE err' = "out_of_range"
      /\ op'.name = "section_at" =>
           /\ data_' = data_
           /\ IF trim(op'.key) \in DOMAIN data_[op'.sec].data_
              THEN err' = "none" /\ ret'.val = data_[op'.sec].data_[trim(op'.key)]
              ELSE err' = "out_of_range"
    ]_vars

\* at(" a\t") on a document whose only section is b: out_of_range, and a
\* was not inserted
C10_Witness ==
  /\ op.name = "at"
  /\ op.sec = <<" ", "a", "\t">>
  /\ err = "out_of_range"
  /\ DOMAIN data_ = {<<"b">>}

----------------------------------------------------------------------------
(* SpecRT: a document built through the API, serialized with to_string()   *)
(* and parsed back with from_string()                                      *)

RtSecs == { << >>, <<"a">>, <<"b">> }

RtKeys == { <<"k">>, <<"[">>, <<";">>, <<"k", "=">> }

RtVals == { <<"v">>, <<" ", "v">>, <<"]">>, <<"v", "\n", "w">> }

\* a call that builds the document, made before it is serialized
Build(r) == op.name \in {"init", "build"} /\ Call([name |-> "build"], r)

RtIndex == \E sec \in RtSecs : Build(call_index(data_, sec))

RtSet == \E sec \in RtSecs, key \in RtKeys, value \in RtVals :
  Build([data |-> inifile_set(data_, sec, key, value), ret |-> Void, err |-> "none"])

RtSetSectionComment == \E sec \in RtSecs :
  Build([data |-> inifile_set_section_comment(data_, sec, <<"c">>, "#"),
         ret |-> Void, err |-> "none"])

RtAddFieldComment == \E sec \in RtSecs, key \in RtKeys :
  Build([data |-> inifile_add_field_comment(data_, sec, key, <<"c">>, ";"),
         ret |-> Void, err |-> "none"])

\* ini.to_string(): write() into a string stream, whose text is returned
ToStr ==
  \E so \in Orders(DOMAIN data_) : \E ko \in KeyOrders(data_) :
    /\ op' = [name |-> "to_string", so |-> so, ko |-> ko]
    /\ ret' = [kind |-> "text", val |-> write(data_, so, ko)]
    /\ err' = "none"
    /\ UNCHANGED <<data_, stream, ci>>

\* ini.from_string(text) on the text to_string() has just returned
FromStr ==
  /\ op.name = "to_string"
  /\ data_' = read(data_, ret.val)
  /\ op' = [name |-> "from_string", text |-> ret.val, before |-> data_]
  /\ ret' = Void
  /\ err' = "none"
  /\ UNCHANGED <<stream, ci>>

NextRT ==
  \/ RtIndex \/ RtSet \/ RtSetSectionComment \/ RtAddFieldComment
  \/ ToStr \/ FromStr

SpecRT == InitApi /\ [][NextRT]_vars

----------------------------------------------------------------------------
(* C1: from_string(to_string(D)) keeps the sections, the keys, every text  *)
(* value and every comment line of a document D built through the API.     *)

SameContent(d, e) ==
  /\ DOMAIN d = DOMAIN e
  /\ \A s \in DOMAIN d :
       /\ comment_view(d[s].comments_) = comment_view(e[s].comments_)
       /\ DOMAIN d[s].data_ = DOMAIN e[s].data_
       /\ \A k \in DOMAIN d[s].data_ :
            /\ d[s].data_[k].value_ = e[s].data_[k].value_
            /\ comment_view(d[s].data_[k].comments_) = comment_view(e[s].data_[k].comments_)

HasChar(str, c) == \E i \in 1..Len(str) : str[i] = c

\* a key and its value make a line that reads back as that key and value
CleanPair(k, v) ==
  /\ ~HasChar(k, "\n") /\ ~HasChar(k, "=")
  /\ k # <<>> => k[1] \notin {";", "#"}
  /\ ~HasChar(v, "\n") /\ v = trim(v)
  /\ ~(k # <<>> /\ k[1] = "[" /\ v # <<>> /\ v[Len(v)] = "]")

\* the documents the text format can carry: no name, key or value holds a
\* line break, values are trimmed, keys hold no '=' and do not start with a
\* comment marker, no key starting with '[' has a value ending with ']', and
\* the section with the empty name has a key and no comment
Clean(d) ==
  /\ \A s \in DOMAIN d :
       /\ ~HasChar(s, "\n")
       /\ \A k \in DOMAIN d[s].data_ : CleanPair(k, d[s].data_[k].value_)
  /\ <<>> \in DOMAIN d =>
       DOMAIN d[<<>>].data_ # {} /\ comment_view(d[<<>>].comments_) = <<>>

\* the claim as stated, for every document
C1_RoundTripAll ==
  op.name = "from_string" => SameContent(op.before, data_)

\* the claim for the documents the text format can carry
C1_RoundTripClean ==
  (op.name = "from_string" /\ Clean(op.before)) => SameContent(op.before, data_)

\* a document with a named section that holds a key with a value and a
\* comment line went through to_string() and from_string()
C1_Witness ==
  /\ op.name = "from_string"
  /\ Clean(op.before)
  /\ \E s \in DOMAIN op.before :
       /\ s # <<>>
       /\ \E k \in DOMAIN op.before[s].data_ :
            /\ op.before[s].data_[k].value_ # <<>>
            /\ comment_view(op.before[s].data_[k].comments_) # <<>>
  /\ SameContent(op.before, data_)

----------------------------------------------------------------------------
(* C7: write() emits the pairs of the section with the empty name first,   *)
(* without a header, then every other section as its comment lines, the    *)
(* line [name] and its pairs, each pair after its own comment lines; a     *)
(* blank line comes before each section after the first one emitted and    *)
(* nowhere else, so the text never begins with a blank line.               *)

RECURSIVE LinesText(_)
LinesText(ls) == IF ls = <<>> THEN <<>> ELSE Head(ls) \o <<"\n">> \o LinesText(Tail(ls))

RECURSIVE PairsLayout(_, _)
PairsLayout(sec, order) ==
  IF order = <<>> THEN <<>>
  ELSE LinesText(comment_view(sec.data_[Head(order)].comments_))
         \o LinesText(<< Head(order) \o <<"=">> \o sec.data_[Head(order)].value_ >>)
         \o PairsLayout(sec, Tail(order))

RECURSIVE SectionsLayout(_, _, _, _)
SectionsLayout(data, names, ko, emitted) ==
  IF names = <<>> THEN <<>>
  ELSE (IF emitted THEN <<"\n">> ELSE <<>>)
         \o LinesText(comment_view(data[Head(names)].comments_))
         \o LinesText(<< <<"[">> \o Head(names) \o <<"]">> >>)
         \o PairsLayout(data[Head(names)], ko[Head(names)])
         \o SectionsLayout(data, Tail(names), ko, TRUE)

IsNamed(name) == name # <<>>

Layout(data, so, ko) ==
  LET first == IF <<>> \in DOMAIN data THEN PairsLayout(data[<<>>], ko[<<>>]) ELSE <<>>
  IN  first \o SectionsLayout(data, SelectSeq(so, IsNamed), ko, first # <<>>)

C7_WriteLayout ==
  op.name = "to_string" =>
    /\ ret.val = Layout(data_, op.so, op.ko)
    /\ ret.val # <<>> => ret.val[1] # "\n"

----------------------------------------------------------------------------
(* SpecMap: the two maps under every call that inserts, erases or replaces *)
(* entries, for inifile and for case_insensitive_inifile, with names that  *)
(* differ in padding and in letter case                                    *)

MapSecs == { <<"a">>, <<"A">>, <<" ", "a", "\t">> }

MapKeys == { <<"k">>, <<" ", "K">> }

MapVals == { <<"v">>, <<"w">> }

FieldOf(value) == [value_ |-> value, comments_ |-> NoComment]

\* the lists handed to basic_section::set
MapLists ==
  { << <<<<" ", "k">>, FieldOf(<<"v">>)>>, <<<<"K">>, FieldOf(<<"w">>)>> >>,
    << <<<<"k", " ">>, FieldOf(<<"w">>)>> >> }

\* the texts handed to from_string
MapTexts ==
  { <<"[", " ", "a", " ", "]", "\n", " ", "k", " ", "=", "v">>,
    <<"[", "a", "]", "\n", "k", "=", "v", "\n", "K", " ", "=", "w">> }

InitMap ==
  /\ ci \in BOOLEAN
  /\ data_ = EmptyMap
  /\ stream = <<>>
  /\ op = [name |-> "init"]
  /\ ret = Void
  /\ err = "none"

MapIndex == \E sec \in MapSecs :
  Call([name |-> "index", sec |-> sec], call_index(data_, sec))

MapIndex2 == \E sec \in MapSecs, key \in MapKeys :
  Call([name |-> "index2", sec |-> sec, key |-> key], call_index2(data_, sec, key))

MapSet == \E sec \in MapSecs, key \in MapKeys, value \in MapVals :
  Call([name |-> "set", sec |-> sec, key |-> key, value |-> value],
       LET d1 == inifile_set(data_, sec, key, value)
       IN  Returns(d1, "field", map_at(map_at(d1, trim(sec)).data_, trim(key))))

MapSetList == \E sec \in MapSecs, args \in MapLists :
  Call([name |-> "set_list", sec |-> sec, args |-> args], call_set_list(data_, sec, args))

MapRemove == \E sec \in MapSecs :
  Call([name |-> "remove", sec |-> sec], call_remove(data_, sec))

MapSectionRemove == \E name \in DOMAIN data_, key \in MapKeys :
  Call([name |-> "section_remove", sec |-> name, key |-> key],
       call_section_remove(data_, name, key))

MapErase == \E sec \in MapSecs :
  Call([name |-> "erase", sec |-> sec], call_erase(data_, sec))

MapClear == Call([name |-> "clear"], call_clear(data_))

MapSectionClear == \E name \in DOMAIN data_ :
  Call([name |-> "section_clear", sec |-> name], call_section_clear(data_, name))

MapFromString == \E str \in MapTexts :
  Call([name |-> "from_string", text |-> str], call_from_string(data_, str))

NextMap ==
  \/ MapIndex \/ MapIndex2 \/ MapSet \/ MapSetList
  \/ MapRemove \/ MapSectionRemove \/ MapErase \/ MapClear \/ MapSectionClear
  \/ MapFromString

SpecMap == InitMap /\ [][NextMap]_vars

----------------------------------------------------------------------------
(* C11: every stored section name and every stored key is its own trimmed  *)
(* form and no two names of one map are equal after trimming, so a lookup  *)
(* with a padded name (contains, at, get, operator[], remove, erase, find, *)
(* count) does what the lookup with the bare name does.                    *)

IsTrimmed(name) ==
  name = <<>> \/ (name[1] \notin whitespaces /\ name[Len(name)] \notin whitespaces)

\* the name with whitespace around it
Pads(name) ==
  { <<" ">> \o name, name \o <<"\t">>, <<"\r", " ">> \o name \o <<"\n">> }

ProbeNames == { << >>, <<"a">>, <<"A">>, <<"b">> }

ProbeKeys == { << >>, <<"k">>, <<"K">> }

\* the calls that insert nothing
SameFound(data, n, p) ==
  /\ call_contains(data, p) = call_contains(data, n)
  /\ call_at(data, p) = call_at(data, n)
  /\ call_remove(data, p) = call_remove(data, n)
  /\ call_erase(data, p) = call_erase(data, n)
  /\ call_find(data, p) = call_find(data, n)
  /\ call_count(data, p) = call_count(data, n)
  /\ \A k \in ProbeKeys :
       /\ call_get(data, p, k, GetDefault) = call_get(data, n, k, GetDefault)
       /\ call_contains2(data, p, k) = call_contains2(data, n, k)

SameLookup(data, n, p) ==
  SameFound(data, n, p) /\ call_index(data, p) = call_index(data, n)

SameKeyFound(data, s, k, p) ==
  /\ call_section_contains(data, s, p) = call_section_contains(data, s, k)
  /\ call_section_at(data, s, p) = call_section_at(data, s, k)
  /\ call_section_get(data, s, p, GetDefault) = call_section_get(data, s, k, GetDefault)
  /\ call_section_remove(data, s, p) = call_section_remove(data, s, k)
  /\ call_section_find(data, s, p) = call_section_find(data, s, k)
  /\ call_section_count(data, s, p) = call_section_count(data, s, k)
  /\ call_contains2(data, s, p) = call_contains2(data, s, k)

SameKeyLookup(data, s, k, p) ==
  SameKeyFound(data, s, k, p) /\ call_index2(data, s, p) = call_index2(data, s, k)

C11_TrimmedNames ==
  /\ \A s \in DOMAIN data_ :
       /\ IsTrimmed(s)
       /\ \A k \in DOMAIN data_[s].data_ : IsTrimmed(k)
       /\ \A k1, k2 \in DOMAIN data_[s].data_ : trim(k1) = trim(k2) => k1 = k2
  /\ \A s1, s2 \in DOMAIN data_ : trim(s1) = trim(s2) => s1 = s2
  /\ \A n \in ProbeNames : \A p \in Pads(n) : SameLookup(data_, n, p)
  /\ \A s \in DOMAIN data_ : \A k \in ProbeKeys : \A p \in Pads(k) :
       SameKeyLookup(data_, s, k, p)

\* ini[" a\t"].set({{" k", v}, {"K", w}}) on an inifile: the section is stored
\* as a and its keys as k and K
C11_Witness ==
  /\ ~ci
  /\ op.name = "set_list"
  /\ op.sec = <<" ", "a", "\t">>
  /\ Len(op.args) = 2
  /\ DOMAIN data_ = {<<"a">>}
  /\ DOMAIN data_[<<"a">>].data_ = {<<"k">>, <<"K">>}

----------------------------------------------------------------------------
(* C12: in case_insensitive_inifile names that differ only in letter case  *)
(* denote one section (one key of a section) for contains, at, operator[], *)
(* get, find, count and erase; the stored name keeps the casing of the     *)
(* first insertion, and indexing or assigning through another casing       *)
(* updates that entry without renaming it or adding a second one.          *)

\* the name with its letters in lower case
Fold(name) ==
  [i \in 1..Len(name) |->
     IF name[i] = "A" THEN "a" ELSE IF name[i] = "K" THEN "k" ELSE name[i]]

\* the stored names that differ from name in letter case at most
Stored12(m, name) == {x \in DOMAIN m : Fold(x) = Fold(name)}

OneEntryPerCasing(data) ==
  /\ \A s1, s2 \in DOMAIN data : Fold(s1) = Fold(s2) => s1 = s2
  /\ \A s \in DOMAIN data : \A k1, k2 \in DOMAIN data[s].data_ :
       Fold(k1) = Fold(k2) => k1 = k2
  /\ \A n, v \in ProbeNames :
       Fold(n) = Fold(v) =>
         /\ SameFound(data, n, v)
         /\ Stored12(data, n) # {} => call_index(data, v) = call_index(data, n)
  /\ \A s \in DOMAIN data : \A k, v \in ProbeKeys :
       Fold(k) = Fold(v) =>
         /\ SameKeyFound(data, s, k, v)
         /\ Stored12(data[s].data_, k) # {} => call_index2(data, s, v) = call_index2(data, s, k)

C12_CaseInsensitive ==
  [][ ci =>
        /\ OneEntryPerCasing(data_')
        /\ op'.name \in {"index", "index2", "set", "set_list"} =>
             LET before == Stored12(data_, trim(op'.sec))
             IN  before # {} =>
                   /\ DOMAIN data_' = DOMAIN data_
                   /\ \A x \in DOMAIN data_ \ before : data_'[x] = data_[x]
                   /\ op'.name = "index" => data_' = data_
                   /\ op'.name \in {"index2", "set"} =>
                        \A s \in before :
                          LET held == Stored12(data_[s].data_, trim(op'.key))
                          IN  /\ held # {} => DOMAIN data_'[s].data_ = DOMAIN data_[s].data_
                              /\ held = {} =>
                                   DOMAIN data_'[s].data_ =
                                     DOMAIN data_[s].data_ \cup {trim(op'.key)}
                              /\ op'.name = "set" =>
                                   \A k \in Stored12(data_'[s].data_, trim(op'.key)) :
                                     data_'[s].data_[k].value_ = op'.value
      ]_vars

\* on a case_insensitive_inifile that holds a with the key k,
\* ini.set("A", " K", "w") leaves the one section a with the one key k = w
C12_Witness ==
  /\ ci
  /\ op.name = "set" /\ op.sec = <<"A">> /\ op.key = <<" ", "K">> /\ op.value = <<"w">>
  /\ DOMAIN data_ = {<<"a">>}
  /\ DOMAIN data_[<<"a">>].data_ = {<<"k">>}
  /\ data_[<<"a">>].data_[<<"k">>].value_ = <<"w">>

----------------------------------------------------------------------------
(* C13: remove(name) on a document or a section returns true exactly when  *)
(* the trimmed name was present; afterwards contains(name) is false, and   *)
(* every other section and key is there with its value and comments.       *)

\* the entries of the map m that the name denotes
Denoted(m, name) ==
  IF ci THEN Stored12(m, trim(name)) ELSE {x \in DOMAIN m : x = trim(name)}

C13_Remove ==
  [][ /\ op'.name = "remove" =>
           LET gone == Denoted(data_, op'.sec)
           IN  /\ err' = "none"
               /\ ret'.val = (gone # {})
               /\ call_contains(data_', op'.sec).ret.val = FALSE
               /\ DOMAIN data_' = DOMAIN data_ \ gone
               /\ \A x \in DOMAIN data_' : data_'[x] = data_[x]
      /\ op'.name = "section_remove" =>
           LET s    == op'.sec
               gone == Denoted(data_[s].data_, op'.key)
           IN  /\ err' = "none"
               /\ ret'.val = (gone # {})
               /\ call_section_contains(data_', s, op'.key).ret.val = FALSE
               /\ DOMAIN data_' = DOMAIN data_
               /\ \A x \in DOMAIN data_ \ {s} : data_'[x] = data_[x]
               /\ data_'[s].comments_ = data_[s].comments_
               /\ DOMAIN data_'[s].data_ = DOMAIN data_[s].data_ \ gone
               /\ \A k \in DOMAIN data_'[s].data_ : data_'[s].data_[k] = data_[s].data_[k]
    ]_vars

\* ini.remove(" a\t") on an inifile that held the sections a and A: the call
\* returned true and A is left
C13_Witness ==
  /\ ~ci
  /\ op.name = "remove" /\ op.sec = <<" ", "a", "\t">>
  /\ ret = [kind |-> "bool", val |-> TRUE]
  /\ DOMAIN data_ = {<<"A">>}

----------------------------------------------------------------------------
(* SpecField: the field ini["s"]["k"] under typed writes (set<T>, typed    *)
(* assignment) and typed reads (as<T>)                                     *)

\* the texts a field is given as std::string
FieldTexts ==
  { << >>, <<"0">>, <<"4", "2">>, <<"+", "4", "2">>, <<"-", "0">>,
    <<"0", "0", "7">>, <<" ", "4", "2">>, <<"4", "2", " ">>,
    <<"\t", "-", "1">>, <<" ", "-", "1">>, <<"-", "1">>, <<"a", "b", "c">>,
    <<"4", "x">>, <<"-">>, <<"+">>, <<" ">>, <<"x", "4">>,
    <<"3", "2", "7", "6", "7">>, <<"3", "2", "7", "6", "8">>,
    <<"-", "3", "2", "7", "6", "8">>, <<"-", "3", "2", "7", "6", "9">>,
    <<"6", "5", "5", "3", "5">>, <<"6", "5", "5", "3", "6">>,
    <<"2", "1", "4", "7", "4", "8", "3", "6", "4", "7">>,
    <<"2", "1", "4", "7", "4", "8", "3", "6", "4", "8">>,
    <<"-", "2", "1", "4", "7", "4", "8", "3", "6", "4", "8">>,
    <<"-", "2", "1", "4", "7", "4", "8", "3", "6", "4", "9">>,
    <<"4", "2", "9", "4", "9", "6", "7", "2", "9", "5">>,
    <<"4", "2", "9", "4", "9", "6", "7", "2", "9", "6">>,
    <<"9", "2", "2", "3", "3", "7", "2", "0", "3", "6", "8", "5", "4", "7", "7", "5", "8", "0", "7">>,
    <<"9", "2", "2", "3", "3", "7", "2", "0", "3", "6", "8", "5", "4", "7", "7", "5", "8", "0", "8">>,
    <<"-", "9", "2", "2", "3", "3", "7", "2", "0", "3", "6", "8", "5", "4", "7", "7", "5", "8", "0", "8">>,
    <<"-", "9", "2", "2", "3", "3", "7", "2", "0", "3", "6", "8", "5", "4", "7", "7", "5", "8", "0", "9">>,
    <<"1", "8", "4", "4", "6", "7", "4", "4", "0", "7", "3", "7", "0", "9", "5", "5", "1", "6", "1", "5">>,
    <<"1", "8", "4", "4", "6", "7", "4", "4", "0", "7", "3", "7", "0", "9", "5", "5", "1", "6", "1", "6">>,
    <<"9", "9", "9", "9", "9", "9", "9", "9", "9", "9", "9", "9", "9", "9", "9", "9", "9", "9", "9", "9", "x">>,
    <<"-", "a", "b", "c">>, <<"3", "2", "7", "6", "8", "x">>,
    <<"-", "0", "x">>, <<"f", "a", "l", "s", "e">>,
    <<"F", "A", "L", "S", "E">>, <<"F", "a", "l", "s", "e">>,
    <<" ", "f", "a", "l", "s", "e">>, <<"f", "a", "l", "s", "e", " ">>,
    <<"t", "r", "u", "e">>, <<"T", "R", "U", "E">>, <<"n", "o">>,
    <<"0", "0">>, <<"A">> }

\* the values of an integral type that are written
IntSamples(T) ==
  CASE T = "signed char" ->
         { IntVal(TRUE, <<"1", "2", "8">>), IntVal(TRUE, <<"1", "2", "7">>),
           IntVal(TRUE, <<"1">>), IntVal(FALSE, << >>), IntVal(FALSE, <<"4", "2">>),
           IntVal(FALSE, <<"6", "5">>), IntVal(FALSE, <<"1", "2", "7">>) }
    [] T = "unsigned char" ->
         { IntVal(FALSE, << >>), IntVal(FALSE, <<"4", "2">>), IntVal(FALSE, <<"6", "5">>),
           IntVal(FALSE, <<"2", "5", "4">>), IntVal(FALSE, <<"2", "5", "5">>) }
    [] T = "short" ->
         { IntVal(TRUE, <<"3", "2", "7", "6", "8">>),
    IntVal(TRUE, <<"3", "2", "7", "6", "7">>), IntVal(TRUE, <<"4", "2">>),
    IntVal(TRUE, <<"1">>), IntVal(FALSE, << >>), IntVal(FALSE, <<"1">>),
    IntVal(FALSE, <<"4", "2">>), IntVal(FALSE, <<"3", "2", "7", "6", "6">>),
    IntVal(FALSE, <<"3", "2", "7", "6", "7">>) }
    [] T = "unsigned short" ->
         { IntVal(FALSE, << >>), IntVal(FALSE, <<"1">>),
    IntVal(FALSE, <<"4", "2">>), IntVal(FALSE, <<"6", "5", "5", "3", "4">>),
    IntVal(FALSE, <<"6", "5", "5", "3", "5">>) }
    [] T = "int" ->
         {
    IntVal(TRUE, <<"2", "1", "4", "7", "4", "8", "3", "6", "4", "8">>),
    IntVal(TRUE, <<"2", "1", "4", "7", "4", "8", "3", "6", "4", "7">>),
    IntVal(TRUE, <<"4", "2">>), IntVal(TRUE, <<"1">>), IntVal(FALSE, << >>),
    IntVal(FALSE, <<"1">>), IntVal(FALSE, <<"4", "2">>),
    IntVal(FALSE, <<"2", "1", "4", "7", "4", "8", "3", "6", "4", "6">>),
    IntVal(FALSE, <<"2", "1", "4", "7", "4", "8", "3", "6", "4", "7">>) }
    [] T = "unsigned int" ->
         { IntVal(FALSE, << >>), IntVal(FALSE, <<"1">>),
    IntVal(FALSE, <<"4", "2">>),
    IntVal(FALSE, <<"4", "2", "9", "4", "9", "6", "7", "2", "9", "4">>),
    IntVal(FALSE, <<"4", "2", "9", "4", "9", "6", "7", "2", "9", "5">>) }
    [] T = "long long" ->
         {
    IntVal(TRUE, <<"9", "2", "2", "3", "3", "7", "2", "0", "3", "6", "8", "5", "4", "7", "7", "5", "8", "0", "8">>),
    IntVal(TRUE, <<"9", "2", "2", "3", "3", "7", "2", "0", "3", "6", "8", "5", "4", "7", "7", "5", "8", "0", "7">>),
    IntVal(TRUE, <<"4", "2">>), IntVal(TRUE, <<"1">>), IntVal(FALSE, << >>),
    IntVal(FALSE, <<"1">>), IntVal(FALSE, <<"4", "2">>),
    IntVal(FALSE, <<"9", "2", "2", "3", "3", "7", "2", "0", "3", "6", "8", "5", "4", "7", "7", "5", "8", "0", "6">>),
    IntVal(FALSE, <<"9", "2", "2", "3", "3", "7", "2", "0", "3", "6", "8", "5", "4", "7", "7", "5", "8", "0", "7">>) }
    [] T = "unsigned long long" ->
         { IntVal(FALSE, << >>), IntVal(FALSE, <<"1">>),
    IntVal(FALSE, <<"4", "2">>),
    IntVal(FALSE, <<"1", "8", "4", "4", "6", "7", "4", "4", "0", "7", "3", "7", "0", "9", "5", "5", "1", "6", "1", "4">>),
    IntVal(FALSE, <<"1", "8", "4", "4", "6", "7", "4", "4", "0", "7", "3", "7", "0", "9", "5", "5", "1", "6", "1", "5">>) }

FieldTypes == IntTypes \cup CharIntTypes \cup {"bool", "char", "string"}

\* the values of type T that are written
Samples(T) ==
  IF T \in IntTypes \cup CharIntTypes THEN IntSamples(T)
  ELSE IF T = "bool" THEN BOOLEAN
  ELSE IF T = "char" THEN {"4", "x", " "}
  ELSE FieldTexts

FieldSec == <<"s">>

FieldKey == <<"k">>

\* the text ini["s"]["k"] holds
FieldText(data) == data[FieldSec].data_[FieldKey].value_

\* ini["s"]["k"] = v, or ini["s"]["k"].set<T>(v)
FieldSet == \E T \in FieldTypes : \E v \in Samples(T) :
  Call([name |-> "set", type |-> T, value |-> v],
       [data |-> call_field_set(data_, FieldSec, FieldKey, T, v).data,
        ret |-> Void, err |-> "none"])

\* ini["s"]["k"].as<T>()
FieldAs == \E T \in FieldTypes \ {"string"} :
  /\ HasField(data_, FieldSec, FieldKey)
  /\ Call([name |-> "as", type |-> T,
           wrote |-> IF op.name = "set" THEN op.type ELSE op.wrote],
          call_field_as(data_, FieldSec, FieldKey, T))

\* ini["s"]["k"].as<std::string>()
FieldAsString ==
  /\ HasField(data_, FieldSec, FieldKey)
  /\ Call([name |-> "as", type |-> "string",
           wrote |-> IF op.name = "set" THEN op.type ELSE op.wrote],
          call_field_as(data_, FieldSec, FieldKey, "string"))

NextField == FieldSet \/ FieldAs \/ FieldAsString

SpecField == InitApi /\ [][NextField]_vars

----------------------------------------------------------------------------
(* C14: a field holds only text. After set<T>(v) or a typed assignment the *)
(* stored text is encode_T(v); a later as<U>() returns decode_U of the     *)
(* stored text whatever type wrote it (after assigning the integer 42,     *)
(* as<std::string>() is "42" and as<int>() is 42); a typed read leaves the *)
(* stored text as it is.                                                   *)

FortyTwo == [neg |-> FALSE, mag |-> <<"4", "2">>]

C14_TextIsTruth ==
  [][ /\ op'.name = "set" =>
           /\ HasField(data_', FieldSec, FieldKey)
           /\ FieldText(data_') = encode(op'.type, op'.value)
      /\ op'.name = "as" =>
           /\ data_' = data_
           /\ LET r == decode(op'.type, FieldText(data_))
              IN  IF r.err = "none"
                  THEN err' = "none" /\ ret' = [kind |-> op'.type, val |-> r.val]
                  ELSE err' = r.err
      /\ (op'.name = "as" /\ op.name = "set" /\ op.type = "int" /\ op.value = FortyTwo) =>
           /\ op'.type = "string" => err' = "none" /\ ret'.val = <<"4", "2">>
           /\ op'.type = "int" => err' = "none" /\ ret'.val = FortyTwo
    ]_vars

\* the field was assigned the int 42 and then read as std::string: "42"
C14_Witness ==
  /\ op.name = "as" /\ op.type = "string" /\ op.wrote = "int"
  /\ err = "none"
  /\ ret = [kind |-> "string", val |-> <<"4", "2">>]
  /\ FieldText(data_) = <<"4", "2">>

----------------------------------------------------------------------------
(* The decimal integer literals, as the claims about integer decoding word *)
(* them: an optional sign followed by digits, and nothing else.            *)

HasSign(text) == text # <<>> /\ text[1] \in {"+", "-"}

LiteralDigits(text) == IF HasSign(text) THEN Tail(text) ELSE text

IsLiteral(text) ==
  LiteralDigits(text) # <<>> /\ \A i \in 1..Len(LiteralDigits(text)) : LiteralDigits(text)[i] \in Digit

\* the value of a literal
LiteralValue(text) ==
  IntVal(text[1] = "-", StripZeros(LiteralDigits(text)))

\* the value lies in [min(T), max(T)]
InRange(T, val) ==
  IF val.neg THEN is_signed(T) /\ ~MagLess(numeric_min_mag(T), val.mag)
  ELSE ~MagLess(numeric_max(T), val.mag)

----------------------------------------------------------------------------
(* C15: for every integer type T of every width, decode_T(encode_T(v)) = v *)
(* for the minimum, the maximum and zero of T and the values between them; *)
(* for the types of 16, 32 and 64 bits, decoding a decimal literal whose   *)
(* value lies outside [min(T), max(T)] throws std::out_of_range and        *)
(* returns no wrapped or truncated value.                                  *)

AllIntTypes == IntTypes \cup CharIntTypes

\* a step that reads as T what was just written as T yields what was written
RoundTrips ==
  (op'.name = "as" /\ op'.type \in AllIntTypes /\ op.name = "set" /\ op.type = op'.type) =>
    /\ InRange(op.type, op.value)
    /\ err' = "none"
    /\ ret' = [kind |-> op.type, val |-> op.value]

\* a step that reads a literal outside the range of a type among Ts throws
RangeChecked(Ts) ==
  (/\ op'.name = "as" /\ op'.type \in Ts
   /\ IsLiteral(FieldText(data_))
   /\ ~InRange(op'.type, LiteralValue(FieldText(data_)))) =>
    err' = "out_of_range" /\ ret' = Void

C15_IntegerRoundTrip == [][RoundTrips /\ RangeChecked(IntTypes)]_vars

\* the claim as stated, the 8-bit types included
C15_AllWidths == [][RoundTrips /\ RangeChecked(AllIntTypes)]_vars

\* the minimum of long long was written and read back as long long
C15_Witness ==
  /\ op.name = "as" /\ op.type = "long long" /\ op.wrote = "long long"
  /\ err = "none"
  /\ ret = [kind |-> "long long", val |-> [neg |-> TRUE, mag |-> LLONG_MIN_MAG]]

----------------------------------------------------------------------------
(* C16: integer decode parses the whole text: it returns a value only when *)
(* the text is a decimal literal (optional sign, then digits) within the   *)
(* range of T, and that value; the empty text and every text with a        *)
(* character outside the literal, whitespace in front or behind included,  *)
(* is rejected with std::invalid_argument.                                 *)
C16_FullStringParse ==
  [][ (op'.name = "as" /\ op'.type \in IntTypes) =>
        LET text == FieldText(data_)
        IN  /\ err' = "none" =>
                 /\ IsLiteral(text)
                 /\ InRange(op'.type, LiteralValue(text))
                 /\ ret'.val = LiteralValue(text)
            /\ ~IsLiteral(text) => err' = "invalid_argument"
    ]_vars

----------------------------------------------------------------------------
(* C17: integer decode throws std::out_of_range only for a well-formed     *)
(* literal whose value lies outside the range of T; a text that is empty,  *)
(* not numeric or only partly numeric throws std::invalid_argument, also   *)
(* when its numeric prefix is out of range.                                *)
C17_ErrorTaxonomy ==
  [][ (op'.name = "as" /\ op'.type \in IntTypes) =>
        LET text == FieldText(data_)
        IN  /\ err' = "out_of_range" =>
                 IsLiteral(text) /\ ~InRange(op'.type, LiteralValue(text))
            /\ ~IsLiteral(text) => err' = "invalid_argument"
    ]_vars

----------------------------------------------------------------------------
(* C18: encode(true) is "true" and encode(false) is "false"; decode is     *)
(* false exactly for the texts that are, letter case aside and untrimmed,  *)
(* "false", "0" or empty, and true for every other text; decode never      *)
(* throws, and decode(encode(b)) = b.                                      *)

IsFalseText(text) ==
  \/ text = <<>>
  \/ text = <<"0">>
  \/ /\ Len(text) = 5
     /\ text[1] \in {"f", "F"} /\ text[2] \in {"a", "A"} /\ text[3] \in {"l", "L"}
     /\ text[4] \in {"s", "S"} /\ text[5] \in {"e", "E"}

C18_Boolean ==
  [][ /\ (op'.name = "set" /\ op'.type = "bool") =>
           FieldText(data_') =
             IF op'.value THEN <<"t", "r", "u", "e">> ELSE <<"f", "a", "l", "s", "e">>
      /\ (op'.name = "as" /\ op'.type = "bool") =>
           /\ err' = "none"
           /\ ret' = [kind |-> "bool", val |-> ~IsFalseText(FieldText(data_))]
           /\ (op.name = "set" /\ op.type = "bool") => ret'.val = op.value
    ]_vars

\* the text "FALSE" was read as bool: false
C18_Witness ==
  /\ op.name = "as" /\ op.type = "bool"
  /\ FieldText(data_) = <<"F", "A", "L", "S", "E">>
  /\ ret = [kind |-> "bool", val |-> FALSE]

----------------------------------------------------------------------------
(* SpecComment: the comment of the section ini["s"] under add_comment,     *)
(* set_comment and clear_comment with a text and a marker                  *)

CommentTexts ==
  { << >>,
    <<" ", "\n", "\t">>,
    <<"a">>,
    <<" ", "a", " ", "\n", "\n", "#", "b", "\r", "\n">>,
    <<";", " ", "a">>,
    <<";", "a">>,
    <<"#", " ", "b">> }

CommentSymbols == {";", "#", "x"}

CommentSec == <<"s">>

\* the comment lines of ini["s"], none while the section does not exist
SectionComment(data) ==
  IF CommentSec \in DOMAIN data THEN comment_view(data[CommentSec].comments_) ELSE <<>>

\* ini["s"].add_comment(str, symbol)
CommentAdd == \E str \in CommentTexts, symbol \in CommentSymbols :
  Call([name |-> "add_comment", text |-> str, symbol |-> symbol],
       [data |-> inifile_add_section_comment(data_, CommentSec, str, symbol),
        ret |-> Void, err |-> "none"])

\* ini["s"].set_comment(str, symbol)
CommentSet == \E str \in CommentTexts, symbol \in CommentSymbols :
  Call([name |-> "set_comment", text |-> str, symbol |-> symbol, had |-> SectionComment(data_)],
       [data |-> inifile_set_section_comment(data_, CommentSec, str, symbol),
        ret |-> Void, err |-> "none"])

\* ini["s"].clear_comment()
CommentClear ==
  Call([name |-> "clear_comment"],
       [data |-> inifile_clear_section_comment(data_, CommentSec),
        ret |-> Void, err |-> "none"])

NextComment == CommentAdd \/ CommentSet \/ CommentClear

SpecComment == InitApi /\ [][NextComment]_vars

----------------------------------------------------------------------------
(* C19: add(text, marker) cuts the text at its line breaks, trims each     *)
(* line, drops the blank ones and appends each other line, with the        *)
(* effective marker and one space in front unless the trimmed line starts  *)
(* with that marker; the effective marker is '#' for '#' and ';' for every *)
(* other character; adding a stored line again with its marker stores it   *)
(* unchanged, and every stored line begins with ';' or '#'.                *)

\* the text cut at every line break
RECURSIVE SplitLines(_)
SplitLines(text) ==
  IF \A i \in 1..Len(text) : text[i] # "\n" THEN <<text>>
  ELSE LET pos == CHOOSE i \in 1..Len(text) :
                    text[i] = "\n" /\ \A j \in 1..(i - 1) : text[j] # "\n"
       IN  <<SubSeq(text, 1, pos - 1)>> \o SplitLines(SubSeq(text, pos + 1, Len(text)))

EffectiveMarker(symbol) == IF symbol = "#" THEN "#" ELSE ";"

Formatted(raw, symbol) ==
  IF Stripped(raw)[1] = EffectiveMarker(symbol) THEN Stripped(raw)
  ELSE <<EffectiveMarker(symbol), " ">> \o Stripped(raw)

RECURSIVE FormattedLines(_, _)
FormattedLines(pieces, symbol) ==
  IF pieces = <<>> THEN <<>>
  ELSE IF IsBlankLine(Head(pieces)) THEN FormattedLines(Tail(pieces), symbol)
  ELSE <<Formatted(Head(pieces), symbol)>> \o FormattedLines(Tail(pieces), symbol)

\* the lines add(text, symbol) appends
Added(text, symbol) == FormattedLines(SplitLines(text), symbol)

C19_CommentAdd ==
  [][ /\ op'.name = "add_comment" =>
           SectionComment(data_') = SectionComment(data_) \o Added(op'.text, op'.symbol)
      /\ op'.name = "add_comment" =>
           \A n \in 1..Len(Added(op'.text, op'.symbol)) :
             LET line == Added(op'.text, op'.symbol)[n]
             IN  comment_view(comment_add(NoComment, line, op'.symbol)) = <<line>>
      /\ \A n \in 1..Len(SectionComment(data_')) :
           LET line == SectionComment(data_')[n]
           IN  /\ line[1] \in {";", "#"}
               /\ comment_view(comment_add(NoComment, line, line[1])) = <<line>>
    ]_vars

\* ini["s"].add_comment(" a \n\n#b\r\n", 'x') on a section without comment:
\* the lines "; a" and "; #b"
C19_Witness ==
  /\ op.name = "add_comment" /\ op.symbol = "x"
  /\ op.text = <<" ", "a", " ", "\n", "\n", "#", "b", "\r", "\n">>
  /\ SectionComment(data_) = << <<";", " ", "a">>, <<";", " ", "#", "b">> >>

----------------------------------------------------------------------------
(* C20: set(text, marker) replaces the stored lines: the comment then      *)
(* holds the lines add(text, marker) gives on an empty comment, whatever   *)
(* it held before; with an empty or all-whitespace text the comment        *)
(* becomes empty, the state clear() leaves.                                *)
C20_CommentSet ==
  [][ op'.name = "set_comment" =>
        /\ SectionComment(data_') = Added(op'.text, op'.symbol)
        /\ SectionComment(data_') =
             comment_view(comment_add(NoComment, op'.text, op'.symbol))
        /\ IsBlankLine(op'.text) =>
             /\ SectionComment(data_') = <<>>
             /\ data_'[CommentSec].comments_ = comment_clear(data_'[CommentSec].comments_)
             /\ data_' = inifile_clear_section_comment(data_, CommentSec)
    ]_vars

\* ini["s"].set_comment("# b", '#') on a section that held a comment line
\* that this call does not produce
C20_Witness ==
  /\ op.name = "set_comment" /\ op.symbol = "#" /\ op.text = <<"#", " ", "b">>
  /\ op.had # <<>> /\ op.had # << <<"#", " ", "b">> >>
  /\ SectionComment(data_) = << <<"#", " ", "b">> >>

----------------------------------------------------------------------------
(* SpecObj: two objects x and y of one class (comment, field,              *)
(* basic_section or basic_inifile) under copy, move and swap, and for      *)
(* comments under add, set, clear and operator==. In this specification    *)
(* data_ holds the class and the two objects.                              *)

ObjKinds == {"comment", "field", "section", "inifile"}

ObjNames == {"x", "y"}

ObjTexts == { << >>, <<" ", "\n", "\t">>, <<"a">>, <<" ", "a", " ", "\n", "#", "b">> }

ObjSymbols == {";", "x"}

\* objects of each class as the API builds them
ObjComment == comment_add(NoComment, <<"a">>, ";")

ObjFields ==
  { DefaultField, [value_ |-> <<"v">>, comments_ |-> ObjComment],
    [value_ |-> <<"w">>, comments_ |-> NoComment] }

ObjSections ==
  { DefaultSection } \cup
  { [data_ |-> (<<"k">> :> f), comments_ |-> c] :
      f \in ObjFields \ {DefaultField}, c \in {NoComment, ObjComment} }

ObjSamples(kind) ==
  CASE kind = "comment" -> {NoComment, ObjComment}
    [] kind = "field" -> ObjFields
    [] kind = "section" -> ObjSections
    [] kind = "inifile" ->
         {EmptyMap} \cup { (<<"s">> :> sec) : sec \in ObjSections \ {DefaultSection} }

InitObj ==
  /\ \E kind \in ObjKinds : \E x \in ObjSamples(kind), y \in ObjSamples(kind) :
       data_ = [kind |-> kind, objs |-> [n \in ObjNames |-> IF n = "x" THEN x ELSE y]]
  /\ stream = << >>
  /\ op = [name |-> "init"]
  /\ ret = Void
  /\ err = "none"
  /\ ci = FALSE

\* the comment lines the two objects hold, when they are comments
ObjLines(objs) == Len(comment_view(objs["x"])) + Len(comment_view(objs["y"]))

\* one call: the objects after it and what it returned
ObjCall(o, objs, r) ==
  /\ data_.kind = "comment" => ObjLines(objs) <= MaxSize
  /\ data_' = [data_ EXCEPT !.objs = objs]
  /\ op' = o
  /\ ret' = r
  /\ err' = "none"
  /\ UNCHANGED <<stream, ci>>

\* this = std::move(rhs)
ObjMoveAssign == \E this \in ObjNames, rhs \in ObjNames :
  ObjCall([name |-> "move_assign", this |-> this, rhs |-> rhs],
          move_assign(data_.kind, data_.objs, this, rhs), Void)

\* T z(std::move(other)); z is what the call returns
ObjMoveConstruct == \E other \in ObjNames :
  ObjCall([name |-> "move_construct", other |-> other],
          [data_.objs EXCEPT ![other] = move_construct(data_.kind, @).other],
          [kind |-> data_.kind, val |-> move_construct(data_.kind, data_.objs[other]).this])

\* this = rhs
ObjCopyAssign == \E this \in ObjNames, rhs \in ObjNames :
  ObjCall([name |-> "copy_assign", this |-> this, rhs |-> rhs],
          copy_assign(data_.objs, this, rhs), Void)

\* x.swap(y)
ObjSwap ==
  ObjCall([name |-> "swap"], obj_swap(data_.objs, "x", "y"), Void)

\* this.add(str, symbol) on a comment
ObjAdd == \E this \in ObjNames, str \in ObjTexts, symbol \in ObjSymbols :
  /\ data_.kind = "comment"
  /\ ObjCall([name |-> "add", this |-> this, text |-> str],
             [data_.objs EXCEPT ![this] = comment_add(@, str, symbol)], Void)

\* this.set(str, symbol) on a comment
ObjSet == \E this \in ObjNames, str \in ObjTexts, symbol \in ObjSymbols :
  /\ data_.kind = "comment"
  /\ ObjCall([name |-> "set", this |-> this, text |-> str],
             [data_.objs EXCEPT ![this] = comment_set(@, str, symbol)], Void)

\* this.clear() on a comment
ObjClear == \E this \in ObjNames :
  /\ data_.kind = "comment"
  /\ ObjCall([name |-> "clear", this |-> this],
             [data_.objs EXCEPT ![this] = comment_clear(@)], Void)

\* this.add(other) on two comments
ObjAddCopy == \E this \in ObjNames, other \in ObjNames :
  /\ data_.kind = "comment" /\ this # other
  /\ ObjCall([name |-> "add_copy", this |-> this, other |-> other],
             [data_.objs EXCEPT ![this] = comment_add_copy(@, data_.objs[other])], Void)

\* this.add(std::move(other)) on two comments
ObjAddMove == \E this \in ObjNames, other \in ObjNames :
  /\ data_.kind = "comment" /\ this # other
  /\ ObjCall([name |-> "add_move", this |-> this, other |-> other],
             [n \in ObjNames |->
                IF n = this THEN comment_add_move(data_.objs[this], data_.objs[other]).this
                ELSE comment_add_move(data_.objs[this], data_.objs[other]).other],
             Void)

\* x == y on two comments
ObjEquals ==
  /\ data_.kind = "comment"
  /\ ObjCall([name |-> "equals"], data_.objs,
             [kind |-> "bool", val |-> comment_eq(data_.objs["x"], data_.objs["y"])])

NextObj ==
  \/ ObjMoveAssign \/ ObjMoveConstruct \/ ObjCopyAssign \/ ObjSwap
  \/ ObjAdd \/ ObjSet \/ ObjClear \/ ObjAddCopy \/ ObjAddMove \/ ObjEquals

SpecObj == InitObj /\ [][NextObj]_vars

----------------------------------------------------------------------------
(* C21: after any sequence of operations on comments (construction, add,   *)
(* set, clear, copy, move, swap, attachment by move) no stored line is     *)
(* empty or made of whitespace only, and the line container is absent or   *)
(* holds at least one line: a comment without lines never has an           *)
(* allocated, empty container.                                             *)

\* the comments an object of a class holds
CommentsIn(kind, obj) ==
  CASE kind = "comment" -> {obj}
    [] kind = "field" -> {obj.comments_}
    [] kind = "section" ->
         {obj.comments_} \cup {obj.data_[k].comments_ : k \in DOMAIN obj.data_}
    [] kind = "inifile" ->
         UNION { {obj[s].comments_} \cup
                 {obj[s].data_[k].comments_ : k \in DOMAIN obj[s].data_} : s \in DOMAIN obj }

WellFormedComment(c) ==
  /\ c.ptr => c.lines # << >>
  /\ ~c.ptr => c.lines = << >>
  /\ \A n \in 1..Len(c.lines) : ~IsBlankLine(c.lines[n])

C21_CommentRepresentation ==
  \A n \in ObjNames : \A c \in CommentsIn(data_.kind, data_.objs[n]) : WellFormedComment(c)

\* y.add(std::move(x)) appended the line of x to the two lines of y and
\* left x without a container
C21_Witness ==
  /\ data_.kind = "comment"
  /\ op.name = "add_move" /\ op.this = "y"
  /\ data_.objs["x"] = NoComment
  /\ Len(data_.objs["y"].lines) = 3

----------------------------------------------------------------------------
(* C22: a == b holds exactly when a.view() and b.view() are the same       *)
(* sequence of lines, in every reachable state; a default-constructed, a   *)
(* cleared, a moved-from comment and one set from an empty text all        *)
(* compare equal.                                                          *)
C22_CommentEquality ==
  [][ /\ op'.name = "equals" =>
           ret'.val = (comment_view(data_'.objs["x"]) = comment_view(data_'.objs["y"]))
      /\ (data_'.kind = "comment" /\ op'.name = "clear") =>
           comment_eq(data_'.objs[op'.this], NoComment)
      /\ (data_'.kind = "comment" /\ op'.name = "set" /\ op'.text = << >>) =>
           comment_eq(data_'.objs[op'.this], NoComment)
      /\ (data_'.kind = "comment" /\ op'.name = "move_assign" /\ op'.this # op'.rhs) =>
           comment_eq(data_'.objs[op'.rhs], NoComment)
      /\ (data_'.kind = "comment" /\ op'.name = "move_construct") =>
           comment_eq(data_'.objs[op'.other], NoComment)
      /\ (data_'.kind = "comment" /\ op'.name = "add_move"
            /\ comment_view(data_.objs[op'.other]) # << >>) =>
           comment_eq(data_'.objs[op'.other], NoComment)
    ]_vars

\* x held lines and was cleared, y was never given any: x == y is true
C22_Witness ==
  /\ op.name = "equals" /\ ret.val
  /\ data_.objs["x"] = NoComment /\ data_.objs["y"] = NoComment

----------------------------------------------------------------------------
(* C23: x = std::move(y) on a document, a section, a field or a comment    *)
(* leaves x with exactly what y held and y empty when x and y are two      *)
(* objects, and leaves x unchanged when they are the same object; move     *)
(* construction leaves the source empty.                                   *)

\* an object without content
IsEmptyObj(kind, obj) ==
  CASE kind = "comment" -> comment_view(obj) = << >>
    [] kind = "field" -> obj.value_ = << >> /\ comment_view(obj.comments_) = << >>
    [] kind = "section" -> DOMAIN obj.data_ = {} /\ comment_view(obj.comments_) = << >>
    [] kind = "inifile" -> DOMAIN obj = {}

C23_MoveAssign ==
  [][ /\ (op'.name = "move_assign" /\ op'.this # op'.rhs) =>
           /\ data_'.objs[op'.this] = data_.objs[op'.rhs]
           /\ IsEmptyObj(data_.kind, data_'.objs[op'.rhs])
      /\ (op'.name = "move_assign" /\ op'.this = op'.rhs) =>
           data_'.objs = data_.objs
      /\ op'.name = "move_construct" =>
           /\ ret'.val = data_.objs[op'.other]
           /\ IsEmptyObj(data_.kind, data_'.objs[op'.other])
           /\ \A n \in ObjNames \ {op'.other} : data_'.objs[n] = data_.objs[n]
    ]_vars

\* a document with a section was moved onto itself and still holds it
C23_Witness ==
  /\ data_.kind = "inifile"
  /\ op.name = "move_assign" /\ op.this = "x" /\ op.rhs = "x"
  /\ DOMAIN data_.objs["x"] # {}

----------------------------------------------------------------------------
(* SpecTrim: detail::trim(std::string &) applied in place to the text in   *)
(* stream, any number of times                                             *)

TrimChars == {" ", "\t", "\n", "\r", "\f", VT, "a", "b"}

\* the longest text trim is given
MaxTrimLen == 4

TrimInputs == UNION { [1..n -> TrimChars] : n \in 0..MaxTrimLen }

InitTrim ==
  /\ stream \in TrimInputs
  /\ data_ = EmptyMap
  /\ op = [name |-> "init"]
  /\ ret = Void
  /\ err = "none"
  /\ ci = FALSE

\* trim(str) on the text held
Trim ==
  /\ op' = [name |-> "trim", str |-> stream]
  /\ stream' = trim(stream)
  /\ UNCHANGED <<data_, ret, err, ci>>

NextTrim == Trim

SpecTrim == InitTrim /\ [][NextTrim]_vars

----------------------------------------------------------------------------
(* C24: trim(trim(s)) = trim(s), and trim(s) is s without its longest      *)
(* prefix and its longest suffix made of the characters space, \t, \n,     *)
(* \r, \f, \v only (the empty text when s has no other character); the     *)
(* whitespace inside is kept.                                              *)

SpaceChars == {" ", "\t", "\n", "\r", "\f", VT}

AllSpace(s) == \A i \in 1..Len(s) : s[i] \in SpaceChars

\* r is s without a prefix and a suffix of whitespace, and none is left at
\* either end of r
IsStripOf(r, s) ==
  \E i \in 0..Len(s) : \E j \in i..Len(s) :
    /\ AllSpace(SubSeq(s, 1, i))
    /\ AllSpace(SubSeq(s, j + 1, Len(s)))
    /\ r = SubSeq(s, i + 1, j)
    /\ r # << >> => r[1] \notin SpaceChars /\ r[Len(r)] \notin SpaceChars

C24_Trim ==
  op.name = "trim" =>
    /\ IsStripOf(stream, op.str)
    /\ AllSpace(op.str) => stream = << >>
    /\ trim(stream) = stream

\* trim("\ta b ") gave "a b", the blank inside kept
C24_Witness ==
  /\ op.name = "trim" /\ op.str = <<"\t", "a", " ", "b">>
  /\ stream = <<"a", " ", "b">>

----------------------------------------------------------------------------
(* SpecSplit: detail::split(str, delimiter, skip_empty), one iteration of  *)
(* its while loop at a time. In this specification stream is str, op holds *)
(* the other arguments and data_ holds the locals start and tokens.        *)

\* the longest text that is split
MaxSplitLen == 3

SplitTexts == UNION { [1..n -> {"a", ":"}] : n \in 0..MaxSplitLen }

SplitDelimiters == { << >>, <<":">>, <<":", ":">>, <<"a", ":">> }

InitSplit ==
  /\ stream \in SplitTexts
  /\ \E delimiter \in SplitDelimiters, skip_empty \in BOOLEAN :
       op = [name |-> "split", delimiter |-> delimiter, skip_empty |-> skip_empty]
  /\ data_ = [pc |-> "while", start |-> 0, tokens |-> << >>]
  /\ ret = Void
  /\ err = "none"
  /\ ci = FALSE

\* the position the loop condition finds
SplitPos == find_str(stream, op.delimiter, data_.start)

\* the body of the while loop: the delimiter was found at pos. The vector
\* of tokens is followed up to one token more than any text of the model
\* has room for, and no further
SplitLoop ==
  /\ data_.pc = "while"
  /\ SplitPos <= Len(stream)
  /\ data_' = [data_ EXCEPT
       !.tokens = IF Len(@) > MaxSplitLen + 1 THEN @
                  ELSE split_push(@, substr(stream, data_.start, SplitPos - data_.start),
                                  op.skip_empty),
       !.start = SplitPos + Len(op.delimiter)]
  /\ UNCHANGED <<stream, op, ret, err, ci>>

\* the loop ends on npos: the last part is pushed and tokens returned
SplitReturn ==
  /\ data_.pc = "while"
  /\ SplitPos > Len(stream)
  /\ data_' = [data_ EXCEPT
       !.pc = "done",
       !.tokens = split_push(@, substr(stream, data_.start, Len(stream)), op.skip_empty)]
  /\ ret' = [kind |-> "tokens",
             val |-> split_push(data_.tokens, substr(stream, data_.start, Len(stream)),
                                op.skip_empty)]
  /\ UNCHANGED <<stream, op, err, ci>>

NextSplit == SplitLoop \/ SplitReturn

\* the call runs on: an iteration that can change the state is taken
SpecSplit == InitSplit /\ [][NextSplit]_vars /\ WF_vars(NextSplit)

----------------------------------------------------------------------------
(* C28: split(str, delimiter, skip_empty) terminates and returns a finite  *)
(* list of tokens for every text and every delimiter, the empty delimiter  *)
(* included, for both values of skip_empty.                                *)
C28_SplitTerminates == <>(data_.pc = "done")

----------------------------------------------------------------------------
(* C25: for every unsigned integer type, decoding a text that denotes a    *)
(* negative number gives no value: it throws std::out_of_range, and the    *)
(* negative literal is never wrapped into a large positive value, whatever *)
(* whitespace or sign stands in front of the digits.                       *)

UnsignedTypes == {T \in IntTypes : ~is_signed(T)}

\* the text without the whitespace in front
RECURSIVE AfterSpace(_)
AfterSpace(text) ==
  IF text # << >> /\ Head(text) \in SpaceChars THEN AfterSpace(Tail(text)) ELSE text

\* whitespace, a minus sign, digits that are not all zero
DenotesNegative(text) ==
  /\ IsLiteral(AfterSpace(text))
  /\ AfterSpace(text)[1] = "-"
  /\ StripZeros(LiteralDigits(AfterSpace(text))) # << >>

C25_NegativeUnsigned ==
  [][ (op'.name = "as" /\ op'.type \in UnsignedTypes /\ DenotesNegative(FieldText(data_')))
        => err' = "out_of_range" ]_vars

----------------------------------------------------------------------------
(* SpecAssign: values and fields assigned to ini["s"]["k"] and             *)
(* ini["s"]["j"] through the API, comments added to them, and texts with   *)
(* a repeated key read                                                     *)

AssignSec == <<"s">>

AssignKeys == { <<"k">>, <<"j">> }

\* what is assigned: a typed value, or a field with its own comment
AssignTypes == {"string", "int", "bool", "field", "field with comment"}

AssignArg(T) ==
  CASE T = "string" -> [is_field |-> FALSE, type |-> T, val |-> <<"v">>]
    [] T = "int" -> [is_field |-> FALSE, type |-> T, val |-> IntVal(FALSE, <<"4", "2">>)]
    [] T = "bool" -> [is_field |-> FALSE, type |-> T, val |-> TRUE]
    [] T = "field" ->
         [is_field |-> TRUE, type |-> T, val |-> [value_ |-> <<"f">>, comments_ |-> NoComment]]
    [] T = "field with comment" ->
         [is_field |-> TRUE, type |-> T,
          val |-> [value_ |-> <<"g">>, comments_ |-> comment_add(NoComment, <<"x">>, ";")]]

AssignTexts ==
  { <<";", "c", "\n", "k", "=", "1", "\n", "k", "=", "2">>,
    <<";", "c", "\n", "k", "=", "1", "\n", "#", "d", "\n", "k", "=", "2">>,
    <<"[", "s", "]", "\n", "#", "d", "\n", "k", "=", "1", "\n", "j", "=", "2", "\n",
      "k", "=", " ", "3">> }

\* ini["s"][key] = value
AssignIndex == \E key \in AssignKeys, T \in AssignTypes :
  Call([name |-> "assign", sec |-> AssignSec, key |-> key, arg |-> AssignArg(T)],
       [data |-> inifile_assign(data_, AssignSec, key, AssignArg(T)), ret |-> Void, err |-> "none"])

\* ini["s"][key].set(value) with a typed value
AssignFieldSet == \E key \in AssignKeys, T \in {"string", "int", "bool"} :
  Call([name |-> "field_set", sec |-> AssignSec, key |-> key, arg |-> AssignArg(T)],
       call_field_set(data_, AssignSec, key, T, AssignArg(T).val))

\* ini["s"].set(key, value)
AssignSectionSet == \E key \in AssignKeys, T \in AssignTypes :
  Call([name |-> "section_set", sec |-> AssignSec, key |-> key, arg |-> AssignArg(T)],
       [data |-> inifile_assign(data_, AssignSec, key, AssignArg(T)), ret |-> Void, err |-> "none"])

\* ini.set("s", key, value)
AssignSet == \E key \in AssignKeys, T \in AssignTypes :
  Call([name |-> "set", sec |-> AssignSec, key |-> key, arg |-> AssignArg(T)],
       [data |-> inifile_assign(data_, AssignSec, key, AssignArg(T)), ret |-> Void, err |-> "none"])

\* ini["s"][key].add_comment("c")
AssignAddComment == \E key \in AssignKeys :
  Call([name |-> "add_comment", sec |-> AssignSec, key |-> key],
       [data |-> inifile_add_field_comment(data_, AssignSec, key, <<"c">>, ";"),
        ret |-> Void, err |-> "none"])

\* ini.from_string(text)
AssignRead == \E text \in AssignTexts :
  /\ stream' = text
  /\ data_' = read(data_, text)
  /\ op' = [name |-> "read"]
  /\ ret' = Void
  /\ err' = "none"
  /\ UNCHANGED ci

NextAssign ==
  \/ AssignIndex \/ AssignFieldSet \/ AssignSectionSet \/ AssignSet
  \/ AssignAddComment \/ AssignRead

SpecAssign == InitApi /\ [][NextAssign]_vars

----------------------------------------------------------------------------
(* C26: a typed value assigned to an existing field, by field = value,     *)
(* field.set(value), section.set(key, value), document.set(section, key,   *)
(* value) or a key=value line of the parser, overwrites the text of the    *)
(* field only and leaves its comment as it was; a field assigned to a      *)
(* field replaces the text and the comment by those of the source.         *)

IsAssignOp(o) == o.name \in {"assign", "field_set", "section_set", "set"}

\* the calls of the API on a field that exists
ApiAssign ==
  (IsAssignOp(op') /\ HasField(data_, op'.sec, op'.key)) =>
    LET f  == data_[op'.sec].data_[op'.key]
        f2 == data_'[op'.sec].data_[op'.key]
    IN  IF op'.arg.is_field
        THEN /\ f2 = op'.arg.val
             /\ data_' = [data_ EXCEPT ![op'.sec].data_[op'.key] = f2]
        ELSE /\ f2.comments_ = f.comments_
             /\ op'.arg.type = "string" => f2.value_ = op'.arg.val
             /\ data_' = [data_ EXCEPT ![op'.sec].data_[op'.key].value_ = f2.value_]

\* line i of the text read is a key=value line for a field that exists
RepeatsKey(i) ==
  /\ IsKeyValueLine(InLines[i])
  /\ HasField(RdStates[i].data_, RdStates[i].current_section, KeyOf(InLines[i]))

FieldBefore(i) == RdStates[i].data_[RdStates[i].current_section].data_[KeyOf(InLines[i])]

FieldAfter(i) == RdStates[i + 1].data_[RdStates[i].current_section].data_[KeyOf(InLines[i])]

\* every key=value line for an existing field keeps the comment of the field
ParserAssign ==
  op.name = "read" =>
    \A i \in 1..Len(InLines) :
      RepeatsKey(i) =>
        /\ FieldAfter(i).value_ = ValueOf(InLines[i])
        /\ FieldAfter(i).comments_ = FieldBefore(i).comments_

\* it keeps the comment when no comment lines came since the last section
\* or key, and else the field gets these lines as its comment
ParserAssignPending ==
  op.name = "read" =>
    \A i \in 1..Len(InLines) :
      RepeatsKey(i) =>
        /\ FieldAfter(i).value_ = ValueOf(InLines[i])
        /\ comment_view(RdStates[i].comments) = << >> =>
             FieldAfter(i).comments_ = FieldBefore(i).comments_
        /\ comment_view(RdStates[i].comments) # << >> =>
             comment_view(FieldAfter(i).comments_) = comment_view(RdStates[i].comments)

C26_AssignKeepsComment == [][ApiAssign]_vars /\ []ParserAssign

C26_AssignKeepsCommentUnlessPending == [][ApiAssign]_vars /\ []ParserAssignPending

\* ini["s"]["k"] held "v" with the comment "; c" and was assigned 42: the
\* text is "42" and the comment is still there
C26_Witness ==
  /\ op.name = "assign" /\ op.key = <<"k">> /\ op.arg.type = "int"
  /\ HasField(data_, AssignSec, <<"k">>)
  /\ data_[AssignSec].data_[<<"k">>].value_ = <<"4", "2">>
  /\ comment_view(data_[AssignSec].data_[<<"k">>].comments_) = << <<";", " ", "c">> >>

----------------------------------------------------------------------------
(* SpecAsTo: the field ini["s"]["k"] under typed writes and under the      *)
(* typed read into a variable of the caller, as_to(out)                    *)

\* what strtoull leaves in temp: a text with a minus sign is negated modulo
\* 2^64
strtoull_value(p) ==
  IF p.neg /\ p.mag # <<>> THEN [neg |-> TRUE, mag |-> p.mag, wrapped |-> TRUE]
  ELSE IntVal(FALSE, p.mag)

\* what result holds when the integral decode is left, by return or by
\* exception: the empty text and a value out of range throw before
\* result = static_cast<T>(temp), the end_ptr test throws after it
decode_integral_result(T, value, p, result) ==
  IF value = <<>> THEN result
  ELSE IF is_signed(T)
       THEN IF decode_signed_range(T, value, p).err = "out_of_range" THEN result
            ELSE IntVal(p.neg, p.mag)
       ELSE IF decode_unsigned_range(T, value, p).err = "out_of_range" THEN result
            ELSE strtoull_value(p)

\* what result holds when convert<T>::decode(value, result) is left: bool and
\* std::string always assign, the character types throw on the empty text
\* before they assign
decode_result(T, value, result) ==
  IF T \in IntTypes THEN decode_integral_result(T, value, strto(value), result)
  ELSE IF decode(T, value).err = "none" THEN decode(T, value).val
  ELSE result

\* field::as_to(out): decode(value_, out); return out
field_as_to(f, T, out) ==
  [out |-> decode_result(T, f.value_, out), err |-> decode(T, f.value_).err]

\* ini.at(sec).at(key).as_to(out) on a field held; ret is the variable out of
\* the caller when the call is left
call_field_as_to(data, sec, key, T, out) ==
  [data |-> data,
   ret  |-> [kind |-> T,
             val |-> field_as_to(map_at(map_at(data, trim(sec)).data_, trim(key)), T, out).out],
   err  |-> field_as_to(map_at(map_at(data, trim(sec)).data_, trim(key)), T, out).err]

\* the values the variable out holds before the call
AsToOuts(T) ==
  IF T \in IntTypes \cup CharIntTypes THEN {IntVal(FALSE, << >>), IntVal(FALSE, <<"7">>)}
  ELSE IF T = "bool" THEN BOOLEAN
  ELSE IF T = "char" THEN {"x"}
  ELSE {<< >>, <<"7">>}

\* ini["s"]["k"] = text
FieldSetText == \E v \in FieldTexts :
  Call([name |-> "set", type |-> "string", value |-> v],
       [data |-> call_field_set(data_, FieldSec, FieldKey, "string", v).data,
        ret |-> Void, err |-> "none"])

\* T out = v; ini["s"]["k"].as_to(out)
FieldAsTo == \E T \in FieldTypes : \E out \in AsToOuts(T) :
  /\ HasField(data_, FieldSec, FieldKey)
  /\ Call([name |-> "as_to", type |-> T, out |-> out],
          call_field_as_to(data_, FieldSec, FieldKey, T, out))

NextAsTo == FieldSetText \/ FieldAsTo

SpecAsTo == InitApi /\ [][NextAsTo]_vars

----------------------------------------------------------------------------
(* C27: when as_to(out) fails with a format or range error for a built-in  *)
(* type, out still holds the value it had before the call: out is written  *)
(* only when decoding succeeds.                                            *)

\* C27: after an as_to(out) that threw, out holds what it held before
C27_AsToKeepsOut ==
  op.name = "as_to" /\ err # "none" => ret.val = op.out

----------------------------------------------------------------------------
(* C29: parsing, serializing and parsing again is stable: with             *)
(* D = from_string(t), from_string(to_string(D)) has the sections, keys,   *)
(* text values and section and key comment lines of D.                     *)

\* C29: the text written from a document that read() left reads back as a
\* document with the same content, whatever order the maps were written in
C29_ParseSerializeParse ==
  (op.name = "write" /\ op.parsed) => SameContent(data_, read(EmptyMap, stream))

\* the document read from the lines ;c, [a], #d and k = v=w was written: the
\* section a carries the comment ;c and its key k the value v=w and the
\* comment #d, and the text reads back as the same document
C29_Witness ==
  /\ op.name = "write" /\ op.parsed
  /\ DOMAIN data_ = {<<"a">>}
  /\ comment_view(data_[<<"a">>].comments_) = << <<";", "c">> >>
  /\ DOMAIN data_[<<"a">>].data_ = {<<"k">>}
  /\ data_[<<"a">>].data_[<<"k">>].value_ = <<"v", "=", "w">>
  /\ comment_view(data_[<<"a">>].data_[<<"k">>].comments_) = << <<"#", "d">> >>
  /\ SameContent(data_, read(EmptyMap, stream))

----------------------------------------------------------------------------
(* C30: when the input repeats a section header or a key within a section, *)
(* read merges them into one entry: the value of the last occurrence of a  *)
(* key wins, and the entry's comment is replaced only when comment lines   *)
(* are pending at the later occurrence; a later occurrence with no         *)
(* preceding comment lines keeps the comment of the earlier occurrence.    *)

\* an earlier line of the input introduced the section or key of line i
RepeatsEarlier(lines, sts, i) ==
  \E j \in 1..(i - 1) :
    IF IsHeaderLine(lines[i])
    THEN IsHeaderLine(lines[j]) /\ HeaderName(lines[j]) = HeaderName(lines[i])
    ELSE /\ IsKeyValueLine(lines[i]) /\ IsKeyValueLine(lines[j])
         /\ sts[j].current_section = sts[i].current_section
         /\ KeyOf(lines[j]) = KeyOf(lines[i])

\* the section line i is in or names
SectionOf(lines, sts, i) ==
  IF IsHeaderLine(lines[i]) THEN HeaderName(lines[i]) ELSE sts[i].current_section

\* C30: a repeated header or key adds no entry: the sections stay, the keys
\* of the section stay, a repeated key takes the value of the later line and
\* the last line of a key gives the value read() leaves; the comment
\* becomes the pending comment lines, or stays when none are pending
C30_RepeatMerges ==
  op.name = "read" =>
    LET lines == InLines
        sts   == RdStates
    IN  \A i \in 1..Len(lines) :
          (IsEntityLine(lines[i]) /\ RepeatsEarlier(lines, sts, i)) =>
            LET pending == CommentsBetween(lines, PrevEntity(lines, i), i)
                sec     == SectionOf(lines, sts, i)
            IN  /\ EntityIn(sts[i].data_, lines, sts, i)
                /\ DOMAIN sts[i + 1].data_ = DOMAIN sts[i].data_
                /\ DOMAIN sts[i + 1].data_[sec].data_ = DOMAIN sts[i].data_[sec].data_
                /\ IsHeaderLine(lines[i]) =>
                     sts[i + 1].data_[sec].data_ = sts[i].data_[sec].data_
                /\ IsKeyValueLine(lines[i]) =>
                     /\ sts[i + 1].data_[sec].data_[KeyOf(lines[i])].value_ = ValueOf(lines[i])
                     /\ LastStore(lines, sts, i) =>
                          data_[sec].data_[KeyOf(lines[i])].value_ = ValueOf(lines[i])
                /\ EntityComment(sts[i + 1].data_, lines, sts, i) =
                     IF pending # <<>> THEN pending
                     ELSE EntityComment(sts[i].data_, lines, sts, i)

\* a read of ";c", "k=" and " k = v=w ": the one key k holds the value of the
\* later line and still carries the comment ;c of the earlier one
C30_Witness ==
  /\ op.name = "read"
  /\ InLines = << <<";", "c">>, <<"k", "=">>, <<" ", "k", " ", "=", " ", "v", "=", "w", " ">> >>
  /\ DOMAIN data_ = {<< >>}
  /\ DOMAIN data_[<< >>].data_ = {<<"k">>}
  /\ data_[<< >>].data_[<<"k">>].value_ = <<"v", "=", "w">>
  /\ comment_view(data_[<< >>].data_[<<"k">>].comments_) = << <<";", "c">> >>

====
